---------------------------- MODULE Spec2Model ----------------------------
(***************************************************************************)
(* Descriptor-ring hand-off protocol of the imxrt-enet driver.             *)
(*                                                                         *)
(* Software (one execution context) claims descriptors through             *)
(* Device::transmit / Device::receive, uses them through                   *)
(* TxToken::consume / RxToken::consume, and the ENET DMA engine services   *)
(* the same rings concurrently.  Every action of the software side is one  *)
(* access to memory shared with the DMA engine, in program order.          *)
(***************************************************************************)
EXTENDS Integers, Sequences, FiniteSets, TLC

(***************************************************************************)
(* Bounds of the model.                                                    *)
(***************************************************************************)
\* Largest number of descriptors (COUNT) of a ring.
MaxCount == 2
\* Buffer sizes (MTU) of the two buffer sets, in units of 16 bytes.
TxMtuUnits == 96
RxMtuUnits == 128
\* Descriptors of the longest transmit ring run without a DMA engine.
HostCount == 8

\* Option::None, and the value of a local that holds nothing.
None == [none |-> TRUE]

(***************************************************************************)
(* bdfields!: offset and width of the named fields of the flags registers, *)
(* and the register access of ral_registers on a u16 register.             *)
(***************************************************************************)
txbd_ready_offset == 15
txbd_wrap_offset == 13
txbd_last_in_offset == 11
txbd_transmit_crc_offset == 10
rxbd_empty_offset == 15
rxbd_wrap_offset == 13
rxbd_last_offset == 11

\* bdfields!(control, u16, ..) of TxBD
txbd_interrupt_offset == 14
txbd_timestamp_offset == 13
txbd_pins_offset == 12
txbd_iins_offset == 11
txbd_utlt_offset == 8
txbd_ftype_offset == 4
txbd_ftype_bits == 4
NON_AVB == 0
AVB_A == 1
AVB_B == 2

\* pub const mask: $type = ((1 << $bits) - 1) << offset, in a u16
mask(offset, bits) == (((2 ^ bits) - 1) * (2 ^ offset)) % 65536

\* read_reg!(.., reg, field): (reg & mask) >> offset
read_field(reg, offset, bits) == (reg \div (2 ^ offset)) % (2 ^ bits)

\* (value << offset) & mask
field_value(offset, bits, value) == (value % (2 ^ bits)) * (2 ^ offset)

\* write_reg!(.., reg, field: value): the register becomes the field's bits alone
write_field(reg, offset, bits, value) == field_value(offset, bits, value)

\* modify_reg!(.., reg, field: value): (reg & !mask) | ((value << offset) & mask)
modify_field(reg, offset, bits, value) ==
    (reg - field_value(offset, bits, read_field(reg, offset, bits)))
        + field_value(offset, bits, value)

(***************************************************************************)
(* The layout of the descriptor types.  Both are #[repr(C)]: the fields    *)
(* keep their declaration order, each at the next offset that is a         *)
(* multiple of its alignment.                                              *)
(***************************************************************************)
U16(name, access) == [name |-> name, size |-> 2, align |-> 2, access |-> access]
U32(name, access) == [name |-> name, size |-> 4, align |-> 4, access |-> access]
\* [u16; n], a private field
Reserved(name, n) == [name |-> name, size |-> 2 * n, align |-> 2, access |-> "none"]

\* A TxBD declared without the reserved half-word before last_bdu.
TxBD_no_reserved ==
    <<U16("data_length", "RW"), U16("flags", "RW"),
      U32("data_buffer_pointer", "RW"), U16("errors", "RW"),
      U16("control", "RW"), U32("launch_time", "RW"),
      U16("last_bdu", "RW"), U32("timestamp_1588", "RW"),
      Reserved("_reserved1", 4)>>

\* pub struct TxBD
TxBD ==
    <<U16("data_length", "RW"), U16("flags", "RW"),
      U32("data_buffer_pointer", "RW"), U16("errors", "RW"),
      U16("control", "RW"), U32("launch_time", "RW"),
      Reserved("_reserved0", 1),
      U16("last_bdu", "RW"), U32("timestamp_1588", "RW"),
      Reserved("_reserved1", 4)>>

\* pub struct RxBD
RxBD ==
    <<U16("data_length", "RO"), U16("flags", "RW"),
      U32("data_buffer_pointer", "RW"), U16("status", "RW"),
      U16("control", "RW"), U16("checksum", "RO"), U16("header", "RO"),
      Reserved("_reserved0", 1),
      U16("last_bdu", "RW"), U32("timestamp_1588", "RO"),
      Reserved("_reserved1", 4)>>

align_up(offset, align) == ((offset + align - 1) \div align) * align

\* The offset of the k-th field of a repr(C) struct.
RECURSIVE field_offset(_, _)
field_offset(fields, k) ==
    IF k = 1 THEN 0
    ELSE align_up(field_offset(fields, k - 1) + fields[k - 1].size,
                  fields[k].align)

FieldIndex(fields, name) == CHOOSE k \in DOMAIN fields : fields[k].name = name

\* addr_of!(bd.name) - start
offset_of(fields, name) == field_offset(fields, FieldIndex(fields, name))

\* core::mem::size_of: the end of the last field; every alignment divides it.
size_of(fields) ==
    LET n == Len(fields) IN align_up(field_offset(fields, n) + fields[n].size, 4)

\* A little-endian load and store of size bytes at a byte offset.
load(bytes, offset, size) ==
    LET RECURSIVE sum(_)
        sum(i) == IF i = size THEN 0 ELSE bytes[offset + i] + 256 * sum(i + 1)
    IN  sum(0)

store(bytes, offset, size, value) ==
    [b \in DOMAIN bytes |->
        IF offset <= b /\ b < offset + size
        THEN (value \div (256 ^ (b - offset))) % 256
        ELSE bytes[b]]

\* The descriptor type of a kind of ring.
BD(kind) == IF kind = "tx" THEN TxBD ELSE RxBD

\* fn zeroed() of the tests: a descriptor whose bytes are all zero.
zeroed_bytes(kind) == [kind |-> kind, bytes |-> [b \in 0 .. (size_of(BD(kind)) - 1) |-> 0]]

\* The byte offsets at which the engine accesses the fields, as
\* tests::field_offsets writes them down.
HwOffsets(kind) ==
    IF kind = "tx"
    THEN [data_length |-> 0, flags |-> 2, data_buffer_pointer |-> 4,
          errors |-> 8, control |-> 10, launch_time |-> 12, last_bdu |-> 18,
          timestamp_1588 |-> 20]
    ELSE [data_length |-> 0, flags |-> 2, data_buffer_pointer |-> 4,
          status |-> 8, control |-> 10, checksum |-> 12, header |-> 14,
          last_bdu |-> 18, timestamp_1588 |-> 20]

(***************************************************************************)
(* Descriptors, rings and buffers.                                         *)
(***************************************************************************)
\* MaybeUninit::zeroed() of a TxBD
ZeroTxBD ==
    [data_length |-> 0, flags |-> 0, data_buffer_pointer |-> 0, errors |-> 0,
     control |-> 0, launch_time |-> 0, last_bdu |-> 0, timestamp_1588 |-> 0]

\* MaybeUninit::zeroed() of an RxBD
ZeroRxBD ==
    [data_length |-> 0, flags |-> 0, data_buffer_pointer |-> 0, status |-> 0,
     control |-> 0, checksum |-> 0, header |-> 0, last_bdu |-> 0,
     timestamp_1588 |-> 0]

\* DataBuffer<MTU> is repr(align(64)): consecutive buffers are one aligned size apart
BufferStride(mtu) == ((mtu + 63) \div 64) * 64

\* Addresses of the statics holding the buffers (any two disjoint regions).
TxBufferBase == 2 ^ 29
RxBufferBase == 2 ^ 29 + 2 ^ 24

\* buffer.0.as_mut_ptr() as _ of the buffer at index i (an address of the
\* 32-bit target, so the cast to the u32 register loses nothing)
TxBufferAddr(i, mtu) == TxBufferBase + i * BufferStride(mtu)
RxBufferAddr(i, mtu) == RxBufferBase + i * BufferStride(mtu)

Indices(n) == 0 .. (n - 1)

\* DescriptorRing::init: every descriptor is zeroed
TxRingInit(n) == [i \in Indices(n) |-> ZeroTxBD]
RxRingInit(n) == [i \in Indices(n) |-> ZeroRxBD]

\* IoBuffers<TxBD>::take: the closure handed to IoBuffers::init
TxTake(n, mtu) ==
    LET zeroed == TxRingInit(n)
        pointed == [i \in Indices(n) |->
                      [zeroed[i] EXCEPT !.data_buffer_pointer = TxBufferAddr(i, mtu)]]
    IN  IF n = 0 THEN pointed
        ELSE [pointed EXCEPT ![n - 1].flags =
                 modify_field(@, txbd_wrap_offset, 1, 1)]

\* A receive take that sets the wrap bit but hands no descriptor to hardware.
RxTake_not_empty(n, mtu) ==
    LET pointed == [i \in Indices(n) |->
                      [RxRingInit(n)[i] EXCEPT
                          !.data_buffer_pointer = RxBufferAddr(i, mtu)]]
    IN  IF n = 0 THEN pointed
        ELSE [pointed EXCEPT ![n - 1].flags =
                 modify_field(@, rxbd_wrap_offset, 1, 1)]

\* IoBuffers<RxBD>::take: the closure handed to IoBuffers::init
RxTake(n, mtu) ==
    LET zeroed == RxRingInit(n)
        pointed == [i \in Indices(n) |->
                      [zeroed[i] EXCEPT
                          !.data_buffer_pointer = RxBufferAddr(i, mtu),
                          !.flags = field_value(rxbd_empty_offset, 1, 1)]]
    IN  IF n = 0 THEN pointed
        ELSE [pointed EXCEPT ![n - 1].flags =
                 modify_field(@, rxbd_wrap_offset, 1, 1)]

RingLen(ring) == Cardinality(DOMAIN ring)


(***************************************************************************)
(* State.                                                                  *)
(***************************************************************************)
VARIABLES
    tx_ring,      \* transmit descriptors, index -> TxBD
    rx_ring,      \* receive descriptors, index -> RxBD
    tx_buffers,   \* contents of the transmit data buffers as memory holds them
    rx_buffers,   \* contents of the receive data buffers as memory holds them
    tx_index,     \* IoSlices::index of the transmit ring
    rx_index,     \* IoSlices::index of the receive ring
    tx_mtu,       \* IoSlices::mtu of the transmit ring
    rx_mtu,       \* IoSlices::mtu of the receive ring
    tx_token,     \* the live TxToken, or None
    rx_token,     \* the live RxToken, or None
    pc,           \* the statement software executes next
    frame,        \* consume's arguments: declared length and what f writes
    buffer,       \* the slice handed to f: [ptr, len]
    pending,      \* stores of f not yet ordered before later writes
    tmp,          \* the register value modify_reg! has read
    result,       \* what f returned
    ret,          \* what the last call of the driver returned
    etheren,      \* ECR.ETHEREN
    tdar,         \* TDAR: transmit descriptors active
    rdar,         \* RDAR: receive descriptors active
    tx_dma,       \* transmit DMA: descriptor pointer and whether it reads a buffer
    rx_dma,       \* receive DMA: descriptor pointer, phase and frame in flight
    tx_count,     \* transmit tokens consumed so far
    rx_count,     \* frames the DMA engine has started to store so far
    tx_sent,      \* frames the DMA engine has transmitted so far
    rx_done,      \* receive tokens consumed so far
    statics,      \* the two IoBuffers statics: const MTU, what became of the
                  \* &'static mut to each, and the cursors made from it
    debug_assertions, \* cfg(debug_assertions) of the build
    rcr,          \* RCR: RMII_MODE, RMII_10T, DRT
    tcr,          \* TCR: FDEN
    mrbr,         \* MRBR.R_BUF_SIZE
    enet_built,   \* Enet::new has returned the driver
    bd_mem        \* one descriptor as bytes in memory, and its type

ring_vars == <<tx_ring, rx_ring, tx_buffers, rx_buffers, tx_index, rx_index,
               tx_mtu, rx_mtu>>
call_vars == <<frame, buffer, pending, tmp, result>>
reg_vars == <<etheren, tdar, rdar>>
enet_vars == <<mrbr, enet_built>>
setup_vars == <<statics, debug_assertions, rcr, tcr, mrbr, enet_built, bd_mem>>
dma_vars == <<tx_dma, rx_dma, rx_count, tx_sent>>
vars == <<tx_ring, rx_ring, tx_buffers, rx_buffers, tx_index, rx_index,
          tx_mtu, rx_mtu, tx_token, rx_token, pc, frame, buffer, pending, tmp, result, ret,
          etheren, tdar, rdar, tx_dma, rx_dma, tx_count, rx_count, rx_done, tx_sent,
          statics, debug_assertions, rcr, tcr, mrbr, enet_built, bd_mem>>

\* Inputs of the model.
Counts == 1 .. MaxCount
TxN == RingLen(tx_ring)
RxN == RingLen(rx_ring)

\* A frame is its length and its bytes.  Software offers a short frame, one
\* that fills a buffer and one that is longer than a buffer; the network
\* delivers a short frame, one that fills a buffer, and one whose length
\* field says more than a buffer holds.
TxFrames == {[len |-> 64, data |-> 1], [len |-> tx_mtu, data |-> 2],
             [len |-> tx_mtu + 1, data |-> 1]}
RxFrames == {[len |-> 42, data |-> 1], [len |-> rx_mtu, data |-> 2],
             [len |-> rx_mtu + 1, data |-> 1]}

\* Frames that cross the two rings in one run, committed by software plus
\* stored by the DMA engine: one more than the longer ring holds, so that
\* a ring fills up and its cursor wraps.
MaxFrames == (IF TxN >= RxN THEN TxN ELSE RxN) + 1

\* The buffer a pointer read from a descriptor addresses.
TxBufferAt(ptr) == CHOOSE i \in DOMAIN tx_buffers : TxBufferAddr(i, tx_mtu) = ptr
RxBufferAt(ptr) == CHOOSE i \in DOMAIN rx_buffers : RxBufferAddr(i, rx_mtu) = ptr

(***************************************************************************)
(* Construction.  Nothing is in flight once Enet::new has run: the MAC is  *)
(* disabled, no doorbell was written, RCR and TCR hold what the reset and  *)
(* Enet::new leave in the fields the driver changes later.                 *)
(***************************************************************************)
Quiescent ==
    /\ tx_token = None
    /\ rx_token = None
    /\ pc = "idle"
    /\ frame = None
    /\ buffer = None
    /\ pending = None
    /\ tmp = None
    /\ result = None
    /\ ret = None
    /\ etheren = 0
    /\ tdar = 0
    /\ rdar = 0
    /\ tx_dma = [ptr |-> 0, busy |-> FALSE]
    /\ rx_dma = [ptr |-> 0, phase |-> "scan", frame |-> None]
    /\ tx_count = 0
    /\ rx_count = 0
    /\ tx_sent = 0
    /\ rx_done = 0
    /\ rcr = [RMII_MODE |-> 0, RMII_10T |-> 0, DRT |-> 0]
    /\ tcr = [FDEN |-> 0]
    /\ bd_mem = zeroed_bytes("tx")

\* An IoBuffers static whose &'static mut went into take, which made one
\* cursor from it.
Borrowed(mtu) == [state |-> "borrowed", mtu |-> mtu, cursors |-> 1]

\* The state after buffer sets of tx_n and rx_n descriptors were taken and
\* Enet::new has run.
Taken(tx_n, rx_n) ==
    /\ tx_mtu = 16 * TxMtuUnits
    /\ rx_mtu = 16 * RxMtuUnits
    /\ tx_ring = TxTake(tx_n, tx_mtu)
    /\ rx_ring = RxTake(rx_n, rx_mtu)
    /\ tx_buffers = [i \in DOMAIN tx_ring |-> 0]
    /\ rx_buffers = [i \in DOMAIN rx_ring |-> 0]
    /\ tx_index = 0
    /\ rx_index = 0
    /\ statics = [tx |-> Borrowed(tx_mtu), rx |-> Borrowed(rx_mtu)]
    /\ mrbr = rx_mtu \div 16
    /\ enet_built = TRUE
    /\ Quiescent

\* The release build of the driver on rings of 1 .. MaxCount descriptors.
Init ==
    /\ debug_assertions = FALSE
    /\ \E tx_n \in Counts, rx_n \in Counts : Taken(tx_n, rx_n)

(***************************************************************************)
(* From the statics to the cursors: IoBuffers::new and IoBuffers::take.    *)
(***************************************************************************)
\* The MTU parameters a program may write.
SetupMtus == {0, 16, 100, 1500, 1536, 2048}

\* What the memory of a DescriptorRing may hold before init writes it
\* (MaybeUninit::uninit()): each 16-bit field all zeros or all ones.
Uninit == {0, 65535}

\* An IoBuffers that was not written into the program yet.
Unbuilt == [state |-> "unbuilt", mtu |-> 0, cursors |-> 0]

\* A check that lets every multiple of 4 pass.
mtu_is_multiple_of_4(mtu) == mtu % 4 = 0

\* const MTU_IS_MULTIPLE_OF_16: () = assert!(MTU % 16 == 0)
MTU_IS_MULTIPLE_OF_16(mtu) == mtu % 16 = 0

\* IoBuffers::<TxBD, n, mtu>::new(): the constant is evaluated when the
\* program is built, and a failing assertion rejects the program.
NewTx(n, mtu) ==
    /\ statics.tx.state = "unbuilt"
    /\ IF MTU_IS_MULTIPLE_OF_16(mtu)
       THEN /\ statics' = [statics EXCEPT
                              !.tx = [state |-> "built", mtu |-> mtu, cursors |-> 0]]
            /\ \E g \in Uninit :
                  tx_ring' = [i \in Indices(n) |->
                                [ZeroTxBD EXCEPT !.flags = g, !.data_length = g]]
            /\ tx_buffers' = [i \in Indices(n) |-> 0]
       ELSE /\ statics' = [statics EXCEPT
                              !.tx = [state |-> "rejected", mtu |-> mtu, cursors |-> 0]]
            /\ UNCHANGED <<tx_ring, tx_buffers>>
    /\ UNCHANGED <<rx_ring, rx_buffers, tx_index, rx_index, tx_mtu, rx_mtu,
                   tx_token, rx_token, pc, call_vars, ret, reg_vars, dma_vars,
                   tx_count, rx_done, debug_assertions, rcr, tcr, enet_vars, bd_mem>>

\* IoBuffers::<RxBD, n, mtu>::new()
NewRx(n, mtu) ==
    /\ statics.rx.state = "unbuilt"
    /\ IF MTU_IS_MULTIPLE_OF_16(mtu)
       THEN /\ statics' = [statics EXCEPT
                              !.rx = [state |-> "built", mtu |-> mtu, cursors |-> 0]]
            /\ \E g \in Uninit :
                  rx_ring' = [i \in Indices(n) |->
                                [ZeroRxBD EXCEPT !.flags = g, !.data_length = g]]
            /\ rx_buffers' = [i \in Indices(n) |-> 0]
       ELSE /\ statics' = [statics EXCEPT
                              !.rx = [state |-> "rejected", mtu |-> mtu, cursors |-> 0]]
            /\ UNCHANGED <<rx_ring, rx_buffers>>
    /\ UNCHANGED <<tx_ring, tx_buffers, tx_index, rx_index, tx_mtu, rx_mtu,
                   tx_token, rx_token, pc, call_vars, ret, reg_vars, dma_vars,
                   tx_count, rx_done, debug_assertions, rcr, tcr, enet_vars, bd_mem>>

\* A take that accepts a static whose reference was already given away.
TakeTx_again ==
    /\ statics.tx.state \in {"built", "borrowed"}
    /\ pc = "idle" /\ tx_token = None
    /\ tx_ring' = TxTake(RingLen(tx_ring), statics.tx.mtu)
    /\ tx_mtu' = statics.tx.mtu
    /\ tx_index' = 0
    /\ statics' = [statics EXCEPT !.tx.state = "borrowed", !.tx.cursors = @ + 1]
    /\ UNCHANGED <<rx_ring, tx_buffers, rx_buffers, rx_index, rx_mtu,
                   tx_token, rx_token, pc, call_vars, ret, reg_vars, dma_vars,
                   tx_count, rx_done, debug_assertions, rcr, tcr, enet_vars, bd_mem>>

\* IoBuffers<TxBD>::take(&'static mut self): the reference moves into the
\* call, init zeroes the ring, the closure writes pointers and wrap, and
\* IoSlices::new makes the cursor.
TakeTx ==
    /\ statics.tx.state = "built"
    /\ tx_ring' = TxTake(RingLen(tx_ring), statics.tx.mtu)
    /\ tx_mtu' = statics.tx.mtu
    /\ tx_index' = 0
    /\ statics' = [statics EXCEPT !.tx.state = "borrowed", !.tx.cursors = @ + 1]
    /\ UNCHANGED <<rx_ring, tx_buffers, rx_buffers, rx_index, rx_mtu,
                   tx_token, rx_token, pc, call_vars, ret, reg_vars, dma_vars,
                   tx_count, rx_done, debug_assertions, rcr, tcr, enet_vars, bd_mem>>

\* IoBuffers<RxBD>::take(&'static mut self)
TakeRx ==
    /\ statics.rx.state = "built"
    /\ rx_ring' = RxTake(RingLen(rx_ring), statics.rx.mtu)
    /\ rx_mtu' = statics.rx.mtu
    /\ rx_index' = 0
    /\ statics' = [statics EXCEPT !.rx.state = "borrowed", !.rx.cursors = @ + 1]
    /\ UNCHANGED <<tx_ring, tx_buffers, rx_buffers, tx_index, tx_mtu,
                   tx_token, rx_token, pc, call_vars, ret, reg_vars, dma_vars,
                   tx_count, rx_done, debug_assertions, rcr, tcr, enet_vars, bd_mem>>

\* A receive buffer size MRBR cannot hold: it has no room for the four low
\* bits, so the size must be a multiple of 16, and not zero.
rx_mtu_is_valid(mtu) == mtu # 0 /\ mtu % 16 = 0

\* Enet::new, as far as the buffer size goes: it takes both cursors, checks
\* the receive buffer size with debug_assert! and writes MRBR.R_BUF_SIZE.
EnetNew ==
    /\ statics.tx.state = "borrowed"
    /\ statics.rx.state = "borrowed"
    /\ ~enet_built
    /\ pc = "idle"
    /\ IF debug_assertions /\ ~rx_mtu_is_valid(rx_mtu)
          THEN /\ pc' = "panic"
               /\ UNCHANGED enet_vars
          ELSE /\ mrbr' = rx_mtu \div 16
               /\ enet_built' = TRUE
               /\ UNCHANGED pc
    /\ UNCHANGED <<ring_vars, tx_token, rx_token, call_vars, ret, reg_vars, dma_vars,
                   tx_count, rx_done, statics, debug_assertions, rcr, tcr, bd_mem>>

\* The driver exists and can be used.
InService == enet_built

(***************************************************************************)
(* The claim protocol.                                                     *)
(***************************************************************************)
\* A check that reads the field next to the ownership bit (to1).
tx_check_wrong_field(txbd) == read_field(txbd.flags, txbd_ready_offset - 1, 1) = 0

\* |txbd| read_reg!(txbd, txbd, flags, ready == 0)
tx_check(txbd) == read_field(txbd.flags, txbd_ready_offset, 1) = 0

\* A check that reads the field next to the ownership bit (ro1).
rx_check_wrong_field(rxbd) == read_field(rxbd.flags, rxbd_empty_offset - 1, 1) = 0

\* |rxbd| read_reg!(rxbd, rxbd, flags, empty == 0)
rx_check(rxbd) == read_field(rxbd.flags, rxbd_empty_offset, 1) = 0

\* A check that finds every descriptor free.
check_always(kind, descriptor) == TRUE

\* The closure next_token hands to next_impl, named by the ring's kind.
check(kind, descriptor) ==
    IF kind = "tx" THEN tx_check(descriptor) ELSE rx_check(descriptor)

\* A next_impl whose next index does not wrap.
next_impl_no_wrap(ring, index, mtu, kind) ==
    IF check(kind, ring[index])
    THEN [descriptor |-> index, next |-> index + 1, mtu |-> mtu]
    ELSE None

\* IoSlices::next_impl.  The token's descriptor reference is the index of
\* the descriptor it borrows; its index reference is the ring's cursor.
next_impl(ring, index, mtu, kind) ==
    LET next == (index + 1) % RingLen(ring)
        descriptor == ring[index]
    IN  IF check(kind, descriptor)
        THEN [descriptor |-> index, next |-> next, mtu |-> mtu]
        ELSE None

\* TransmitSlices::next_token
tx_next_token(ring, index, mtu) == next_impl(ring, index, mtu, "tx")

\* ReceiveSlices::next_token
rx_next_token(ring, index, mtu) == next_impl(ring, index, mtu, "rx")

NoCall == pc = "idle" /\ tx_token = None /\ rx_token = None

\* A transmit that moves the cursor past a descriptor it finds busy.
Transmit_skip ==
    /\ NoCall
    /\ tx_token' = tx_next_token(tx_ring, tx_index, tx_mtu)
    /\ ret' = [call |-> "transmit", some |-> tx_token' # None]
    /\ tx_index' = IF tx_token' = None THEN (tx_index + 1) % TxN ELSE tx_index
    /\ UNCHANGED <<setup_vars, tx_mtu, rx_mtu, tx_ring, rx_ring, tx_buffers, rx_buffers,
                   rx_index, rx_token, pc, call_vars, reg_vars, dma_vars,
                   tx_count, rx_done>>

\* Device::transmit
Transmit ==
    /\ NoCall
    /\ tx_token' = tx_next_token(tx_ring, tx_index, tx_mtu)
    /\ ret' = [call |-> "transmit", some |-> tx_token' # None]
    /\ UNCHANGED <<setup_vars, ring_vars, rx_token, pc, call_vars, reg_vars, dma_vars,
                   tx_count, rx_done>>

\* A receive that goes on to the receive ring without a transmit token.
ReceiveTx_without_token ==
    /\ NoCall
    /\ tx_token' = tx_next_token(tx_ring, tx_index, tx_mtu)
    /\ pc' = "receive"
    /\ UNCHANGED <<setup_vars, ring_vars, rx_token, ret, call_vars, reg_vars,
                   dma_vars, tx_count, rx_done>>

\* Device::receive up to the first `?`: the transmit ring is asked first.
ReceiveTx ==
    /\ NoCall
    /\ LET tx == tx_next_token(tx_ring, tx_index, tx_mtu)
       IN  IF tx = None
           THEN /\ ret' = [call |-> "receive", some |-> FALSE]
                /\ UNCHANGED <<setup_vars, tx_token, pc>>
           ELSE /\ tx_token' = tx
                /\ pc' = "receive"
                /\ UNCHANGED ret
    /\ UNCHANGED <<setup_vars, ring_vars, rx_token, call_vars, reg_vars, dma_vars,
                   tx_count, rx_done>>

\* Device::receive from the second next_token on.
ReceiveRx ==
    /\ pc = "receive"
    /\ LET rx == rx_next_token(rx_ring, rx_index, rx_mtu)
       IN  IF rx = None
           THEN /\ tx_token' = None
                /\ rx_token' = None
                /\ ret' = [call |-> "receive", some |-> FALSE]
           ELSE /\ rx_token' = rx
                /\ ret' = [call |-> "receive", some |-> TRUE]
                /\ UNCHANGED tx_token
    /\ pc' = "idle"
    /\ UNCHANGED <<setup_vars, ring_vars, call_vars, reg_vars, dma_vars, tx_count, rx_done>>

\* A drop that moves the cursor on as consume does.
DropTxToken_advance ==
    /\ pc = "idle"
    /\ tx_token # None
    /\ tx_index' = tx_token.next
    /\ tx_token' = None
    /\ ret' = [call |-> "drop_tx", some |-> FALSE]
    /\ UNCHANGED <<setup_vars, tx_mtu, rx_mtu, tx_ring, rx_ring, tx_buffers, rx_buffers,
                   rx_index, rx_token, pc, call_vars, reg_vars, dma_vars,
                   tx_count, rx_done>>

\* A TxToken goes out of scope unconsumed (IoToken has no Drop code).
DropTxToken ==
    /\ pc = "idle"
    /\ tx_token # None
    /\ tx_token' = None
    /\ ret' = [call |-> "drop_tx", some |-> FALSE]
    /\ UNCHANGED <<setup_vars, ring_vars, rx_token, pc, call_vars, reg_vars, dma_vars,
                   tx_count, rx_done>>

\* A drop of an RxToken that moves the cursor past the descriptor.
DropRxToken_advance ==
    /\ pc = "idle"
    /\ rx_token # None
    /\ rx_index' = rx_token.next
    /\ rx_token' = None
    /\ ret' = [call |-> "drop_rx", some |-> FALSE]
    /\ UNCHANGED <<setup_vars, tx_mtu, rx_mtu, tx_ring, rx_ring, tx_buffers, rx_buffers,
                   tx_index, tx_token, pc, call_vars, reg_vars, dma_vars,
                   tx_count, rx_done>>

\* An RxToken goes out of scope unconsumed.
DropRxToken ==
    /\ pc = "idle"
    /\ rx_token # None
    /\ rx_token' = None
    /\ ret' = [call |-> "drop_rx", some |-> FALSE]
    /\ UNCHANGED <<setup_vars, ring_vars, tx_token, pc, call_vars, reg_vars, dma_vars,
                   tx_count, rx_done>>


(***************************************************************************)
(* TxToken::consume, one action per access to shared memory.               *)
(***************************************************************************)
\* The stores of the user function to its slice: they reach memory in
\* program order only once a fence orders them.
UserWrite(view, data) == [ptr |-> view.ptr, len |-> view.len, data |-> data]

\* No fence: nothing orders the stores of f before the stores that follow.
no_fence(buffers, stores) == buffers

\* core::sync::atomic::fence(Ordering::SeqCst): the stores before it are in
\* memory before any store after it.
fence(buffers, stores) ==
    IF stores = None THEN buffers
    ELSE [buffers EXCEPT ![TxBufferAt(stores.ptr)] = stores.data]

\* write_reg!(txbd, self.descriptor, data_length, len as _)
tx_write_data_length(txbd, len) == [txbd EXCEPT !.data_length = len % 65536]

\* A flag update that sets ready alone.
tx_flags_ready_only(flags) == modify_field(flags, txbd_ready_offset, 1, 1)

\* modify_reg!(txbd, self.descriptor, flags, ready: 1, last_in: 1, transmit_crc: 1):
\* the value written, from the value read
tx_flags_ready(flags) ==
    modify_field(
        modify_field(
            modify_field(flags, txbd_ready_offset, 1, 1),
            txbd_last_in_offset, 1, 1),
        txbd_transmit_crc_offset, 1, 1)

\* A consume that cuts a frame longer than the buffer down to the buffer.
TxConsume_truncate(fr) ==
    /\ pc = "idle"
    /\ tx_token # None
    /\ tx_count + rx_count < MaxFrames
    /\ pc' = "tx_f"
    /\ frame' = [len |-> IF fr.len <= tx_token.mtu THEN fr.len ELSE tx_token.mtu,
                 data |-> fr.data]
    /\ buffer' = [ptr |-> tx_ring[tx_token.descriptor].data_buffer_pointer,
                  len |-> frame'.len]
    /\ ret' = None
    /\ UNCHANGED <<setup_vars, ring_vars, tx_token, rx_token, pending, tmp, result, reg_vars,
                   dma_vars, tx_count, rx_done>>

\* consume(self, len, f) up to the call of f: the assertion and the slice
TxConsume(fr) ==
    /\ pc = "idle"
    /\ tx_token # None
    /\ tx_count + rx_count < MaxFrames
    /\ IF fr.len <= tx_token.mtu
       THEN /\ pc' = "tx_f"
            /\ frame' = fr
            /\ buffer' = [ptr |-> tx_ring[tx_token.descriptor].data_buffer_pointer,
                          len |-> fr.len]
            /\ UNCHANGED <<setup_vars, tx_token, rx_token>>
       ELSE \* assert!(len <= self.mtu) fails: the program panics
            /\ pc' = "panic"
            /\ tx_token' = None
            /\ rx_token' = None
            /\ UNCHANGED <<setup_vars, frame, buffer>>
    /\ ret' = None
    /\ UNCHANGED <<setup_vars, ring_vars, pending, tmp, result, reg_vars, dma_vars, tx_count, rx_done>>

\* let result = f(buffer)
TxUserFn ==
    /\ pc = "tx_f"
    /\ pending' = UserWrite(buffer, frame.data)
    /\ result' = [value |-> frame.data]
    /\ pc' = "tx_fence"
    /\ UNCHANGED <<setup_vars, ring_vars, tx_token, rx_token, frame, buffer, tmp, ret,
                   reg_vars, dma_vars, tx_count, rx_done>>

\* core::sync::atomic::fence(Ordering::SeqCst)
TxFence ==
    /\ pc = "tx_fence"
    /\ tx_buffers' = fence(tx_buffers, pending)
    /\ pending' = None
    /\ pc' = "tx_len"
    /\ UNCHANGED <<setup_vars, tx_mtu, rx_mtu, tx_ring, rx_ring, rx_buffers, tx_index, rx_index, tx_token,
                   rx_token, frame, buffer, tmp, result, ret, reg_vars,
                   dma_vars, tx_count, rx_done>>

\* write_reg!(txbd, self.descriptor, data_length, len as _)
TxWriteLength ==
    /\ pc = "tx_len"
    /\ tx_ring' = [tx_ring EXCEPT ![tx_token.descriptor] =
                      tx_write_data_length(@, frame.len)]
    /\ pc' = "tx_flags_read"
    /\ UNCHANGED <<setup_vars, tx_mtu, rx_mtu, rx_ring, tx_buffers, rx_buffers, tx_index, rx_index,
                   tx_token, rx_token, call_vars, ret, reg_vars, dma_vars,
                   tx_count, rx_done>>

\* modify_reg!(txbd, self.descriptor, flags, ..): the read
TxReadFlags ==
    /\ pc = "tx_flags_read"
    /\ tmp' = [flags |-> tx_ring[tx_token.descriptor].flags]
    /\ pc' = "tx_flags_write"
    /\ UNCHANGED <<setup_vars, ring_vars, tx_token, rx_token, frame, buffer, pending,
                   result, ret, reg_vars, dma_vars, tx_count, rx_done>>

\* modify_reg!(txbd, self.descriptor, flags, ..): the write
TxWriteFlags ==
    /\ pc = "tx_flags_write"
    /\ tx_ring' = [tx_ring EXCEPT ![tx_token.descriptor].flags =
                      tx_flags_ready(tmp.flags)]
    /\ tmp' = None
    /\ pc' = "tx_doorbell"
    /\ UNCHANGED <<setup_vars, tx_mtu, rx_mtu, rx_ring, tx_buffers, rx_buffers, tx_index, rx_index,
                   tx_token, rx_token, frame, buffer, pending, result, ret,
                   reg_vars, dma_vars, tx_count, rx_done>>

\* A transmit token that rings the receive doorbell.
TxDoorbell_wrong_register ==
    /\ pc = "tx_doorbell"
    /\ rdar' = 1
    /\ pc' = "tx_index"
    /\ UNCHANGED <<setup_vars, ring_vars, tx_token, rx_token, call_vars, ret, etheren,
                   tdar, dma_vars, tx_count, rx_done>>

\* A transmit token whose consume writes no doorbell.
TxDoorbell_none ==
    /\ pc = "tx_doorbell"
    /\ pc' = "tx_index"
    /\ UNCHANGED <<setup_vars, ring_vars, tx_token, rx_token, call_vars, ret, reg_vars,
                   dma_vars, tx_count, rx_done>>

\* self.ready.consume(): TxReady::consume writes TDAR
TxDoorbell ==
    /\ pc = "tx_doorbell"
    /\ tdar' = 1
    /\ pc' = "tx_index"
    /\ UNCHANGED <<setup_vars, ring_vars, tx_token, rx_token, call_vars, ret, etheren,
                   rdar, dma_vars, tx_count, rx_done>>

\* A return that forgets to advance the cursor.
TxReturn_no_advance ==
    /\ pc = "tx_index"
    /\ ret' = [call |-> "tx_consume", value |-> result.value]
    /\ tx_token' = None
    /\ frame' = None
    /\ buffer' = None
    /\ result' = None
    /\ pc' = "idle"
    /\ tx_count' = tx_count + 1
    /\ UNCHANGED <<setup_vars, ring_vars, rx_token, pending, tmp, reg_vars, dma_vars, rx_done>>

\* *self.index = self.next; result
TxReturn ==
    /\ pc = "tx_index"
    /\ tx_index' = tx_token.next
    /\ ret' = [call |-> "tx_consume", value |-> result.value]
    /\ tx_token' = None
    /\ frame' = None
    /\ buffer' = None
    /\ result' = None
    /\ pc' = "idle"
    /\ tx_count' = tx_count + 1
    /\ UNCHANGED <<setup_vars, tx_mtu, rx_mtu, tx_ring, rx_ring, tx_buffers, rx_buffers, rx_index,
                   rx_token, pending, tmp, reg_vars, dma_vars, rx_done>>


(***************************************************************************)
(* RxToken::consume, one action per access to shared memory.               *)
(***************************************************************************)
\* What the user function sees in its slice: the length of the slice and
\* the bytes memory holds there.
UserRead(view, buffers) ==
    [len |-> view.len, data |-> buffers[RxBufferAt(view.ptr)]]

\* A flag update that writes back what it read.
rx_flags_unchanged(flags) == flags

\* A flag update that writes the register whole, as take() does.
rx_flags_write_empty(flags) == field_value(rxbd_empty_offset, 1, 1)

\* modify_reg!(rxbd, self.descriptor, flags, empty: 1): the value written,
\* from the value read
rx_flags_empty(flags) == modify_field(flags, rxbd_empty_offset, 1, 1)

\* consume(self, f) up to the call of f: the length, the assertion, the slice
RxConsume ==
    /\ pc = "idle"
    /\ rx_token # None
    /\ LET len == rx_ring[rx_token.descriptor].data_length
       IN  IF len <= rx_token.mtu
           THEN /\ pc' = "rx_f"
                /\ buffer' = [ptr |-> rx_ring[rx_token.descriptor].data_buffer_pointer,
                              len |-> len]
                /\ UNCHANGED <<setup_vars, tx_token, rx_token>>
           ELSE \* assert!(len <= self.mtu) fails: the program panics
                /\ pc' = "panic"
                /\ tx_token' = None
                /\ rx_token' = None
                /\ UNCHANGED buffer
    /\ ret' = None
    /\ UNCHANGED <<setup_vars, ring_vars, frame, pending, tmp, result, reg_vars, dma_vars,
                   tx_count, rx_done>>

\* let result = f(buffer)
RxUserFn ==
    /\ pc = "rx_f"
    /\ result' = [value |-> UserRead(buffer, rx_buffers)]
    /\ pc' = "rx_flags_read"
    /\ UNCHANGED <<setup_vars, ring_vars, tx_token, rx_token, frame, buffer, pending, tmp,
                   ret, reg_vars, dma_vars, tx_count, rx_done>>

\* modify_reg!(rxbd, self.descriptor, flags, empty: 1): the read
RxReadFlags ==
    /\ pc = "rx_flags_read"
    /\ tmp' = [flags |-> rx_ring[rx_token.descriptor].flags]
    /\ pc' = "rx_flags_write"
    /\ UNCHANGED <<setup_vars, ring_vars, tx_token, rx_token, frame, buffer, pending,
                   result, ret, reg_vars, dma_vars, tx_count, rx_done>>

\* modify_reg!(rxbd, self.descriptor, flags, empty: 1): the write
RxWriteFlags ==
    /\ pc = "rx_flags_write"
    /\ rx_ring' = [rx_ring EXCEPT ![rx_token.descriptor].flags =
                      rx_flags_empty(tmp.flags)]
    /\ tmp' = None
    /\ pc' = "rx_doorbell"
    /\ UNCHANGED <<setup_vars, tx_mtu, rx_mtu, tx_ring, tx_buffers, rx_buffers, tx_index, rx_index,
                   tx_token, rx_token, frame, buffer, pending, result, ret,
                   reg_vars, dma_vars, tx_count, rx_done>>

\* self.ready.consume(): RxReady::consume writes RDAR
RxDoorbell ==
    /\ pc = "rx_doorbell"
    /\ rdar' = 1
    /\ pc' = "rx_index"
    /\ UNCHANGED <<setup_vars, ring_vars, tx_token, rx_token, call_vars, ret, etheren,
                   tdar, dma_vars, tx_count, rx_done>>

\* A return that moves the cursor one descriptor on without wrapping.
RxReturn_past_end ==
    /\ pc = "rx_index"
    /\ rx_index' = rx_index + 1
    /\ ret' = [call |-> "rx_consume", value |-> result.value]
    /\ rx_token' = None
    /\ buffer' = None
    /\ result' = None
    /\ pc' = "idle"
    /\ rx_done' = rx_done + 1
    /\ UNCHANGED <<setup_vars, tx_mtu, rx_mtu, tx_ring, rx_ring, tx_buffers, rx_buffers, tx_index,
                   tx_token, frame, pending, tmp, reg_vars, dma_vars, tx_count>>

\* *self.index = self.next; result
RxReturn ==
    /\ pc = "rx_index"
    /\ rx_index' = rx_token.next
    /\ ret' = [call |-> "rx_consume", value |-> result.value]
    /\ rx_token' = None
    /\ buffer' = None
    /\ result' = None
    /\ pc' = "idle"
    /\ rx_done' = rx_done + 1
    /\ UNCHANGED <<setup_vars, tx_mtu, rx_mtu, tx_ring, rx_ring, tx_buffers, rx_buffers, tx_index,
                   tx_token, frame, pending, tmp, reg_vars, dma_vars, tx_count>>

(***************************************************************************)
(* Device::capabilities for Enet: a read of the two cursors' mtu fields.   *)
(***************************************************************************)
ChecksumNone ==
    [ipv4 |-> "None", udp |-> "None", tcp |-> "None", icmpv4 |-> "None"]

capabilities_of_rx(tx_ring_mtu, rx_ring_mtu) ==
    [medium |-> "Ethernet",
     max_transmission_unit |-> rx_ring_mtu,
     max_burst_size |-> rx_ring_mtu,
     checksum |-> ChecksumNone]

capabilities(tx_ring_mtu, rx_ring_mtu) ==
    LET mtu == IF tx_ring_mtu <= rx_ring_mtu THEN tx_ring_mtu ELSE rx_ring_mtu
    IN  [medium |-> "Ethernet",
         max_transmission_unit |-> mtu,
         max_burst_size |-> mtu,
         checksum |-> ChecksumNone]

(***************************************************************************)
(* Enet::enable_mac.                                                       *)
(***************************************************************************)
EnableMac(enable) ==
    /\ NoCall
    /\ etheren' = IF enable THEN 1 ELSE 0
    /\ rdar' = IF enable THEN 1 ELSE rdar
    /\ ret' = None
    /\ UNCHANGED <<setup_vars, ring_vars, tx_token, rx_token, pc, call_vars, tdar,
                   dma_vars, tx_count, rx_done>>


(***************************************************************************)
(* Enet::is_mac_enabled, and the three configuration methods that check it *)
(* with debug_assert!: the check is compiled only under debug_assertions.  *)
(***************************************************************************)
is_mac_enabled == etheren = 1

Duplexes == {"Half", "Full"}

EnableRmiiMode(enable) ==
    /\ NoCall
    /\ IF debug_assertions /\ is_mac_enabled
          THEN /\ pc' = "panic"
               /\ UNCHANGED <<rcr, ret>>
          ELSE /\ rcr' = [rcr EXCEPT !.RMII_MODE = IF enable THEN 1 ELSE 0]
               /\ ret' = None
               /\ UNCHANGED pc
    /\ UNCHANGED <<enet_vars, bd_mem, statics, debug_assertions, tcr, ring_vars, tx_token, rx_token,
                   call_vars, reg_vars, dma_vars, tx_count, rx_done>>

Enable10tMode(enable) ==
    /\ NoCall
    /\ IF debug_assertions /\ is_mac_enabled
          THEN /\ pc' = "panic"
               /\ UNCHANGED <<rcr, ret>>
          ELSE /\ rcr' = [rcr EXCEPT !.RMII_10T = IF enable THEN 1 ELSE 0]
               /\ ret' = None
               /\ UNCHANGED pc
    /\ UNCHANGED <<enet_vars, bd_mem, statics, debug_assertions, tcr, ring_vars, tx_token, rx_token,
                   call_vars, reg_vars, dma_vars, tx_count, rx_done>>

SetDuplex(duplex) ==
    /\ NoCall
    /\ IF debug_assertions /\ is_mac_enabled
          THEN /\ pc' = "panic"
               /\ UNCHANGED <<rcr, tcr, ret>>
          ELSE /\ tcr' = [tcr EXCEPT !.FDEN = IF duplex = "Full" THEN 1 ELSE 0]
               /\ rcr' = [rcr EXCEPT !.DRT = IF duplex = "Full" THEN 0 ELSE 1]
               /\ ret' = None
               /\ UNCHANGED pc
    /\ UNCHANGED <<enet_vars, bd_mem, statics, debug_assertions, ring_vars, tx_token, rx_token,
                   call_vars, reg_vars, dma_vars, tx_count, rx_done>>


(***************************************************************************)
(* modify_reg!(txbd, &txbd, control, field: value) on a descriptor, as     *)
(* tests::bdfields_enum issues it.                                         *)
(***************************************************************************)
ControlFields ==
    {[name |-> "interrupt", offset |-> txbd_interrupt_offset, bits |-> 1],
     [name |-> "timestamp", offset |-> txbd_timestamp_offset, bits |-> 1],
     [name |-> "pins", offset |-> txbd_pins_offset, bits |-> 1],
     [name |-> "iins", offset |-> txbd_iins_offset, bits |-> 1],
     [name |-> "utlt", offset |-> txbd_utlt_offset, bits |-> 1],
     [name |-> "ftype", offset |-> txbd_ftype_offset, bits |-> txbd_ftype_bits]}

\* Every value the field holds, and one that does not fit in it.
FieldValues(field) == 0 .. (2 ^ field.bits)

ModifyControl(field, value) ==
    /\ NoCall
    /\ tx_ring' = [tx_ring EXCEPT ![0].control =
                      modify_field(@, field.offset, field.bits, value)]
    /\ UNCHANGED <<setup_vars, rx_ring, tx_buffers, rx_buffers, tx_index, rx_index,
                   tx_mtu, rx_mtu, tx_token, rx_token, pc, call_vars, ret,
                   reg_vars, dma_vars, tx_count, rx_done>>

(***************************************************************************)
(* The DMA engine of the MAC.  It runs while ETHEREN is set, works on a    *)
(* ring while the ring's doorbell register is set, touches a descriptor    *)
(* and its buffer only while the ownership bit gives them to hardware, and *)
(* clears the doorbell when it meets a descriptor software owns.           *)
(***************************************************************************)
\* The descriptor after the one at ptr: descriptor 0 after the one whose
\* wrap bit is set.
DmaNext(ring, ptr, wrap_offset) ==
    IF read_field(ring[ptr].flags, wrap_offset, 1) = 1 THEN 0
    ELSE (ptr + 1) % RingLen(ring)

\* The transmit engine reads the descriptor it points at.
TxDmaFetch ==
    /\ etheren = 1
    /\ tdar = 1
    /\ ~tx_dma.busy
    /\ IF read_field(tx_ring[tx_dma.ptr].flags, txbd_ready_offset, 1) = 1
       THEN tx_dma' = [tx_dma EXCEPT !.busy = TRUE] /\ UNCHANGED tdar
       ELSE tdar' = 0 /\ UNCHANGED tx_dma
    /\ UNCHANGED <<setup_vars, ring_vars, tx_token, rx_token, pc, call_vars, ret, etheren,
                   rdar, rx_dma, rx_count, tx_count, rx_done, tx_sent>>

\* The frame has left the buffer: the descriptor goes back to software.
TxDmaDone ==
    /\ etheren = 1
    /\ tx_dma.busy
    /\ tx_ring' = [tx_ring EXCEPT ![tx_dma.ptr].flags =
                      modify_field(@, txbd_ready_offset, 1, 0)]
    /\ tx_dma' = [ptr |-> DmaNext(tx_ring, tx_dma.ptr, txbd_wrap_offset),
                  busy |-> FALSE]
    /\ tx_sent' = tx_sent + 1
    /\ UNCHANGED <<setup_vars, tx_mtu, rx_mtu, rx_ring, tx_buffers, rx_buffers, tx_index, rx_index,
                   tx_token, rx_token, pc, call_vars, ret, reg_vars, rx_dma,
                   rx_count, tx_count, rx_done>>

\* A frame arrives and the receive engine reads the descriptor it points at.
RxDmaFetch(fr) ==
    /\ etheren = 1
    /\ rdar = 1
    /\ rx_dma.phase = "scan"
    /\ IF read_field(rx_ring[rx_dma.ptr].flags, rxbd_empty_offset, 1) = 1
       THEN /\ tx_count + rx_count < MaxFrames
            /\ rx_dma' = [rx_dma EXCEPT !.phase = "store", !.frame = fr]
            /\ rx_count' = rx_count + 1
            /\ UNCHANGED rdar
       ELSE /\ rdar' = 0
            /\ UNCHANGED <<setup_vars, rx_dma, rx_count>>
    /\ UNCHANGED <<setup_vars, ring_vars, tx_token, rx_token, pc, call_vars, ret, etheren,
                   tdar, tx_dma, tx_count, rx_done, tx_sent>>

\* The engine stores the frame and its length.
RxDmaWrite ==
    /\ etheren = 1
    /\ rx_dma.phase = "store"
    /\ rx_buffers' = [rx_buffers EXCEPT ![rx_dma.ptr] = rx_dma.frame.data]
    /\ rx_ring' = [rx_ring EXCEPT ![rx_dma.ptr].data_length = rx_dma.frame.len]
    /\ rx_dma' = [rx_dma EXCEPT !.phase = "commit"]
    /\ UNCHANGED <<setup_vars, tx_mtu, rx_mtu, tx_ring, tx_buffers, tx_index, rx_index, tx_token, rx_token,
                   pc, call_vars, ret, reg_vars, tx_dma, rx_count, tx_count, rx_done, tx_sent>>

\* The engine clears empty last and moves on.
RxDmaDone ==
    /\ etheren = 1
    /\ rx_dma.phase = "commit"
    /\ rx_ring' = [rx_ring EXCEPT ![rx_dma.ptr].flags =
                      modify_field(modify_field(@, rxbd_empty_offset, 1, 0),
                                   rxbd_last_offset, 1, 1)]
    /\ rx_dma' = [ptr |-> DmaNext(rx_ring, rx_dma.ptr, rxbd_wrap_offset),
                  phase |-> "scan", frame |-> None]
    /\ UNCHANGED <<setup_vars, tx_mtu, rx_mtu, tx_ring, tx_buffers, rx_buffers, tx_index, rx_index,
                   tx_token, rx_token, pc, call_vars, ret, reg_vars, tx_dma,
                   rx_count, tx_count, rx_done, tx_sent>>

(***************************************************************************)
(* The system.                                                             *)
(***************************************************************************)
Software ==
    \/ \E enable \in BOOLEAN : EnableMac(enable)
    \/ Transmit
    \/ ReceiveTx
    \/ ReceiveRx
    \/ DropTxToken
    \/ DropRxToken
    \/ \E fr \in TxFrames : TxConsume(fr)
    \/ TxUserFn
    \/ TxFence
    \/ TxWriteLength
    \/ TxReadFlags
    \/ TxWriteFlags
    \/ TxDoorbell
    \/ TxReturn
    \/ RxConsume
    \/ RxUserFn
    \/ RxReadFlags
    \/ RxWriteFlags
    \/ RxDoorbell
    \/ RxReturn

Dma ==
    \/ TxDmaFetch
    \/ TxDmaDone
    \/ \E fr \in RxFrames : RxDmaFetch(fr)
    \/ RxDmaWrite
    \/ RxDmaDone

Next == Software \/ Dma

Spec == Init /\ [][Next]_vars

(***************************************************************************)
(* The transmit side on its own, as the driver runs on a host: a transmit  *)
(* ring of up to HostCount descriptors, and no DMA engine that would hand  *)
(* a descriptor back.                                                      *)
(***************************************************************************)
HostInit ==
    /\ debug_assertions = FALSE
    /\ \E tx_n \in 1 .. HostCount : Taken(tx_n, 1)

HostNext ==
    \/ Transmit
    \/ DropTxToken
    \/ \E fr \in TxFrames : TxConsume(fr)
    \/ TxUserFn
    \/ TxFence
    \/ TxWriteLength
    \/ TxReadFlags
    \/ TxWriteFlags
    \/ TxDoorbell
    \/ TxReturn

HostSpec == HostInit /\ [][HostNext]_vars

(***************************************************************************)
(* The driver and the engine on numbered frames: the k-th frame software   *)
(* commits and the k-th frame the network delivers carry the number k in   *)
(* their bytes and in their length, so that a frame in a buffer tells its  *)
(* place in the sequence.                                                  *)
(***************************************************************************)
NthTxFrame(k) == [len |-> 64 + k, data |-> k]
NthRxFrame(k) == [len |-> 42 + k, data |-> k]

FifoInit == Init

FifoNext ==
    \/ \E enable \in BOOLEAN : EnableMac(enable)
    \/ Transmit
    \/ ReceiveTx
    \/ ReceiveRx
    \/ DropTxToken
    \/ DropRxToken
    \/ TxConsume(NthTxFrame(tx_count + 1))
    \/ TxUserFn
    \/ TxFence
    \/ TxWriteLength
    \/ TxReadFlags
    \/ TxWriteFlags
    \/ TxDoorbell
    \/ TxReturn
    \/ RxConsume
    \/ RxUserFn
    \/ RxReadFlags
    \/ RxWriteFlags
    \/ RxDoorbell
    \/ RxReturn
    \/ TxDmaFetch
    \/ TxDmaDone
    \/ RxDmaFetch(NthRxFrame(rx_count + 1))
    \/ RxDmaWrite
    \/ RxDmaDone

FifoSpec == FifoInit /\ [][FifoNext]_vars

(***************************************************************************)
(* Progress on the transmit ring.  The MAC is enabled and stays enabled,   *)
(* a consume that has started runs to its end, and the transmit engine is  *)
(* scheduled fairly.  Nothing obliges the caller to ask for a token or to  *)
(* consume one.                                                            *)
(***************************************************************************)
LiveInit ==
    /\ debug_assertions = FALSE
    /\ \E tx_n \in Counts : Taken(tx_n, 1)

\* The statements of TxToken::consume after its first.
TxConsumeRuns ==
    \/ TxUserFn
    \/ TxFence
    \/ TxWriteLength
    \/ TxReadFlags
    \/ TxWriteFlags
    \/ TxDoorbell
    \/ TxReturn

LiveNext ==
    \/ EnableMac(TRUE)
    \/ Transmit
    \/ DropTxToken
    \/ \E fr \in TxFrames : TxConsume(fr)
    \/ TxUserFn
    \/ TxFence
    \/ TxWriteLength
    \/ TxReadFlags
    \/ TxWriteFlags
    \/ TxDoorbell
    \/ TxReturn
    \/ TxDmaFetch
    \/ TxDmaDone

LiveSpec ==
    /\ LiveInit
    /\ [][LiveNext]_vars
    /\ WF_vars(TxConsumeRuns)
    /\ WF_vars(TxDmaFetch)
    /\ WF_vars(TxDmaDone)


(***************************************************************************)
(* The program from its statics on: the buffer sets are written with some  *)
(* COUNT and MTU, taken, and the transmit side is used.                    *)
(***************************************************************************)
SetupInit ==
    /\ debug_assertions \in BOOLEAN
    /\ mrbr = 0
    /\ enet_built = FALSE
    /\ statics = [tx |-> Unbuilt, rx |-> Unbuilt]
    /\ tx_ring = TxRingInit(0)
    /\ rx_ring = RxRingInit(0)
    /\ tx_buffers = [i \in Indices(0) |-> 0]
    /\ rx_buffers = [i \in Indices(0) |-> 0]
    /\ tx_mtu = 0
    /\ rx_mtu = 0
    /\ tx_index = 0
    /\ rx_index = 0
    /\ Quiescent

SetupNext ==
    \/ \E n \in Counts, mtu \in SetupMtus : NewTx(n, mtu)
    \/ \E n \in Counts, mtu \in SetupMtus : NewRx(n, mtu)
    \/ TakeTx
    \/ TakeRx
    \/ EnetNew
    \/ InService /\ Transmit
    \/ InService /\ ReceiveTx
    \/ InService /\ ReceiveRx
    \/ InService /\ DropTxToken
    \/ InService /\ \E fr \in TxFrames : TxConsume(fr)
    \/ InService /\ TxUserFn
    \/ InService /\ TxFence
    \/ InService /\ TxWriteLength
    \/ InService /\ TxReadFlags
    \/ InService /\ TxWriteFlags
    \/ InService /\ TxDoorbell
    \/ InService /\ TxReturn

SetupSpec == SetupInit /\ [][SetupNext]_vars

(***************************************************************************)
(* Configuration of the MAC: either build of the driver, on rings of any   *)
(* modelled size, under enable_mac and the three configuration methods.    *)
(***************************************************************************)
ConfigInit ==
    /\ debug_assertions \in BOOLEAN
    /\ \E tx_n, rx_n \in Counts : Taken(tx_n, rx_n)

ConfigNext ==
    \/ \E enable \in BOOLEAN : EnableMac(enable)
    \/ \E enable \in BOOLEAN : EnableRmiiMode(enable)
    \/ \E enable \in BOOLEAN : Enable10tMode(enable)
    \/ \E duplex \in Duplexes : SetDuplex(duplex)

ConfigSpec == ConfigInit /\ [][ConfigNext]_vars

(***************************************************************************)
(* Register access on one transmit descriptor: its control register reads  *)
(* zero, as after MaybeUninit::zeroed(), or has every bit set.             *)
(***************************************************************************)
RegInit ==
    /\ debug_assertions = FALSE
    /\ tx_mtu = 16 * TxMtuUnits
    /\ rx_mtu = 16 * RxMtuUnits
    /\ \E control \in Uninit :
          tx_ring = [i \in Indices(1) |-> [ZeroTxBD EXCEPT !.control = control]]
    /\ rx_ring = RxTake(1, rx_mtu)
    /\ tx_buffers = [i \in DOMAIN tx_ring |-> 0]
    /\ rx_buffers = [i \in DOMAIN rx_ring |-> 0]
    /\ tx_index = 0
    /\ rx_index = 0
    /\ statics = [tx |-> Borrowed(tx_mtu), rx |-> Borrowed(rx_mtu)]
    /\ mrbr = rx_mtu \div 16
    /\ enet_built = TRUE
    /\ Quiescent

RegNext ==
    \E field \in ControlFields : \E value \in FieldValues(field) :
        ModifyControl(field, value)

RegSpec == RegInit /\ [][RegNext]_vars

(***************************************************************************)
(* Access to the fields of one descriptor in memory.  Software goes        *)
(* through the struct, at the offsets the compiler gives the fields; the   *)
(* engine goes to its fixed byte offsets.                                  *)
(***************************************************************************)
\* The values written: zero and a pattern with four different bytes.
FieldPatterns(size) == IF size = 2 THEN {0, 42330} ELSE {0, 305419896}

\* write_reg!(.., bd, name, value) on a pub RWRegister field
WriteField(name, value) ==
    /\ NoCall
    /\ LET fields == BD(bd_mem.kind)
           field == fields[FieldIndex(fields, name)]
       IN  /\ field.access = "RW"
           /\ bd_mem' = [bd_mem EXCEPT !.bytes =
                            store(@, offset_of(fields, name), field.size, value)]
    /\ UNCHANGED <<ring_vars, tx_token, rx_token, pc, call_vars, ret, reg_vars,
                   dma_vars, tx_count, rx_done, statics, debug_assertions, rcr, tcr,
                   enet_vars>>

\* The engine stores a field of the descriptor.
DmaWriteField(name, value) ==
    /\ LET fields == BD(bd_mem.kind)
           field == fields[FieldIndex(fields, name)]
       IN  bd_mem' = [bd_mem EXCEPT !.bytes =
                        store(@, HwOffsets(bd_mem.kind)[name], field.size, value)]
    /\ UNCHANGED <<ring_vars, tx_token, rx_token, pc, call_vars, ret, reg_vars,
                   dma_vars, tx_count, rx_done, statics, debug_assertions, rcr, tcr,
                   enet_vars>>

LayoutInit ==
    /\ debug_assertions = FALSE
    /\ tx_mtu = 16 * TxMtuUnits
    /\ rx_mtu = 16 * RxMtuUnits
    /\ tx_ring = TxTake(1, tx_mtu)
    /\ rx_ring = RxTake(1, rx_mtu)
    /\ tx_buffers = [i \in DOMAIN tx_ring |-> 0]
    /\ rx_buffers = [i \in DOMAIN rx_ring |-> 0]
    /\ tx_index = 0
    /\ rx_index = 0
    /\ statics = [tx |-> Borrowed(tx_mtu), rx |-> Borrowed(rx_mtu)]
    /\ mrbr = rx_mtu \div 16
    /\ enet_built = TRUE
    /\ tx_token = None
    /\ rx_token = None
    /\ pc = "idle"
    /\ frame = None
    /\ buffer = None
    /\ pending = None
    /\ tmp = None
    /\ result = None
    /\ ret = None
    /\ etheren = 0
    /\ tdar = 0
    /\ rdar = 0
    /\ tx_dma = [ptr |-> 0, busy |-> FALSE]
    /\ rx_dma = [ptr |-> 0, phase |-> "scan", frame |-> None]
    /\ tx_count = 0
    /\ rx_count = 0
    /\ tx_sent = 0
    /\ rx_done = 0
    /\ rcr = [RMII_MODE |-> 0, RMII_10T |-> 0, DRT |-> 0]
    /\ tcr = [FDEN |-> 0]
    /\ \E kind \in {"tx", "rx"} : bd_mem = zeroed_bytes(kind)

LayoutNext ==
    \/ \E name \in DOMAIN HwOffsets(bd_mem.kind) :
         \E value \in FieldPatterns(BD(bd_mem.kind)[FieldIndex(BD(bd_mem.kind), name)].size) :
            WriteField(name, value)
    \/ \E name \in DOMAIN HwOffsets(bd_mem.kind) :
         \E value \in FieldPatterns(BD(bd_mem.kind)[FieldIndex(BD(bd_mem.kind), name)].size) :
            DmaWriteField(name, value)

LayoutSpec == LayoutInit /\ [][LayoutNext]_vars

(***************************************************************************)
(* Vocabulary of the properties.                                           *)
(***************************************************************************)
\* The ownership bit of descriptor i reads software-owned.
TxOwnedBySoftware(i) == read_field(tx_ring[i].flags, txbd_ready_offset, 1) = 0
RxOwnedBySoftware(i) == read_field(rx_ring[i].flags, rxbd_empty_offset, 1) = 0

\* The descriptors whose buffer software touches: the slice of the user
\* function is alive, or its stores are still on their way to memory.
SoftwareTouchesTx ==
    IF pc \in {"tx_f", "tx_fence"} THEN {TxBufferAt(buffer.ptr)} ELSE {}
SoftwareTouchesRx ==
    IF pc = "rx_f" THEN {RxBufferAt(buffer.ptr)} ELSE {}

\* The descriptors whose buffer the DMA engine touches.
DmaTouchesTx == IF tx_dma.busy THEN {tx_dma.ptr} ELSE {}
DmaTouchesRx == IF rx_dma.phase # "scan" THEN {rx_dma.ptr} ELSE {}

(***************************************************************************)
(* C1.  In every interleaving of software and DMA steps a buffer is never  *)
(* accessed by both parties at once: software touches a buffer only while  *)
(* the descriptor's ownership bit reads software-owned (ready == 0,        *)
(* empty == 0), the DMA engine only while it reads hardware-owned.         *)
(***************************************************************************)
C1_SingleOwner ==
    /\ \A i \in SoftwareTouchesTx : TxOwnedBySoftware(i)
    /\ \A i \in SoftwareTouchesRx : RxOwnedBySoftware(i)
    /\ \A i \in DmaTouchesTx : ~TxOwnedBySoftware(i)
    /\ \A i \in DmaTouchesRx : ~RxOwnedBySoftware(i)
    /\ SoftwareTouchesTx \cap DmaTouchesTx = {}
    /\ SoftwareTouchesRx \cap DmaTouchesRx = {}
    /\ pc \in {"tx_f", "tx_fence"} => buffer.ptr = TxBufferAddr(tx_token.descriptor, tx_mtu)
    /\ pc = "rx_f" => buffer.ptr = RxBufferAddr(rx_token.descriptor, rx_mtu)

\* Software writes one transmit buffer while the engine reads another, and
\* the engine stores a frame at the same time.
C1_Witness ==
    /\ pc = "tx_f"
    /\ tx_dma.busy
    /\ rx_dma.phase = "store"

(***************************************************************************)
(* C2.  next_token returns a token if and only if the descriptor at the    *)
(* cursor is software-owned (transmit: ready == 0, receive: empty == 0),   *)
(* and the token is bound to that descriptor, with next = (index + 1)      *)
(* mod N and the MTU of the ring.                                          *)
(***************************************************************************)
C2_TxExpected ==
    IF TxOwnedBySoftware(tx_index)
    THEN [descriptor |-> tx_index, next |-> (tx_index + 1) % TxN, mtu |-> tx_mtu]
    ELSE None

C2_RxExpected ==
    IF RxOwnedBySoftware(rx_index)
    THEN [descriptor |-> rx_index, next |-> (rx_index + 1) % RxN, mtu |-> rx_mtu]
    ELSE None

C2_NextToken ==
    /\ [](tx_next_token(tx_ring, tx_index, tx_mtu) = C2_TxExpected)
    /\ [](rx_next_token(rx_ring, rx_index, rx_mtu) = C2_RxExpected)
    /\ [][/\ Transmit => tx_token' = C2_TxExpected
          /\ ReceiveTx => (IF C2_TxExpected = None THEN pc' = "idle"
                           ELSE tx_token' = C2_TxExpected /\ pc' = "receive")
          /\ ReceiveRx => rx_token' = C2_RxExpected]_vars

\* A transmit token for the last descriptor of a longer ring, a receive
\* token beside it, and the transmit ring handed both out.
C2_Witness ==
    /\ TxN > 1
    /\ tx_token # None
    /\ tx_token.descriptor = TxN - 1
    /\ tx_token.next = 0
    /\ rx_token # None
    /\ rx_token.descriptor = 1

(***************************************************************************)
(* C3.  Within one ring claims are FIFO by index: the k-th descriptor      *)
(* claimed and consumed (k = 0, 1, ...) is the one at index k mod N; the   *)
(* cursor skips no slot and wraps at N.                                    *)
(***************************************************************************)
C3_Fifo ==
    /\ tx_index = tx_count % TxN
    /\ rx_index = rx_done % RxN
    /\ tx_token # None => tx_token.descriptor = tx_count % TxN
    /\ rx_token # None => rx_token.descriptor = rx_done % RxN

\* The token of the claim after the cursor went round the ring once.
C3_Witness ==
    /\ TxN > 1
    /\ tx_count = TxN
    /\ tx_token # None
    /\ tx_token.descriptor = 0

(***************************************************************************)
(* C4.  On transmit the DMA engine never observes ready set before the     *)
(* frame's payload and data_length are in memory: the only step that sets  *)
(* ready is the flag update of TxToken::consume, and when it runs the      *)
(* stores of the user function and the write of data_length are already    *)
(* in memory; while ready stays set the descriptor holds a whole frame as  *)
(* software declared it.                                                   *)
(***************************************************************************)
C4_Committed(i) ==
    \E fr \in TxFrames :
        /\ fr.len <= tx_mtu
        /\ tx_ring[i].data_length = fr.len
        /\ tx_buffers[i] = fr.data

C4_ReleaseOrder ==
    /\ [](\A i \in DOMAIN tx_ring : ~TxOwnedBySoftware(i) => C4_Committed(i))
    /\ [][\A i \in DOMAIN tx_ring :
            (TxOwnedBySoftware(i) /\ ~TxOwnedBySoftware(i)') =>
                /\ pc = "tx_flags_write"
                /\ i = tx_token.descriptor
                /\ pending = None
                /\ tx_buffers[i] = frame.data
                /\ tx_ring[i].data_length = frame.len
                /\ tx_buffers'[i] = frame.data
                /\ tx_ring'[i].data_length = frame.len]_vars
    /\ [][\A i \in DOMAIN tx_ring :
            (~TxOwnedBySoftware(i) /\ ~TxOwnedBySoftware(i)') =>
                /\ tx_buffers'[i] = tx_buffers[i]
                /\ tx_ring'[i].data_length = tx_ring[i].data_length]_vars

\* The engine reads the buffer of a descriptor whose frame fills the buffer
\* while software is about to set ready on the next one.
C4_Witness ==
    /\ tx_dma.busy
    /\ tx_ring[tx_dma.ptr].data_length = tx_mtu
    /\ tx_buffers[tx_dma.ptr] = 2
    /\ pc = "tx_flags_write"
    /\ tx_token.descriptor # tx_dma.ptr

(***************************************************************************)
(* C5.  On receive software reads data_length and data_buffer_pointer of   *)
(* a descriptor only after it read the ownership bit as software-owned     *)
(* (empty == 0): the reads happen under a token, a token exists only for   *)
(* a descriptor whose empty bit read 0, and the engine, which stores       *)
(* length and data first and clears empty last, is not storing into it.    *)
(* So the length and the bytes software sees are those of one whole frame  *)
(* the engine stored.                                                      *)
(***************************************************************************)
C5_Claimed ==
    (rx_token # None /\ pc \in {"idle", "rx_f"}) =>
        /\ RxOwnedBySoftware(rx_token.descriptor)
        /\ rx_token.descriptor \notin DmaTouchesRx
        /\ \E fr \in RxFrames :
              /\ rx_ring[rx_token.descriptor].data_length = fr.len
              /\ rx_buffers[rx_token.descriptor] = fr.data

C5_AcquireOrder ==
    /\ []C5_Claimed
    /\ [][RxConsume =>
            /\ rx_token # None
            /\ RxOwnedBySoftware(rx_token.descriptor)
            /\ pc' # "panic" =>
                  /\ buffer'.len = rx_ring[rx_token.descriptor].data_length
                  /\ buffer'.ptr = rx_ring[rx_token.descriptor].data_buffer_pointer]_vars
    /\ [][RxUserFn =>
            \E fr \in RxFrames : result'.value = [len |-> fr.len, data |-> fr.data]]_vars

\* The user function has read the frame that fills the buffer of the last
\* descriptor while the engine stores the next frame into descriptor 0.
C5_Witness ==
    /\ pc = "rx_flags_read"
    /\ RxN > 1
    /\ rx_token.descriptor = RxN - 1
    /\ result.value = [len |-> rx_mtu, data |-> 2]
    /\ rx_dma.phase = "store"
    /\ rx_dma.ptr = 0

(***************************************************************************)
(* C6.  Consuming a transmit token with len <= MTU, claimed at index i of  *)
(* a ring of N descriptors: the user function gets a view of exactly len   *)
(* bytes of the buffer of descriptor i; consume returns what the user      *)
(* function returned; descriptor i is left with data_length = len and      *)
(* with ready, last_in and transmit_crc set, all three by one flag update  *)
(* that changes no other flag; the cursor is left at (i + 1) mod N.        *)
(***************************************************************************)
TxFlagsSet(flags) ==
    /\ read_field(flags, txbd_ready_offset, 1) = 1
    /\ read_field(flags, txbd_last_in_offset, 1) = 1
    /\ read_field(flags, txbd_transmit_crc_offset, 1) = 1

TxOtherFlagsKept(old, new) ==
    \A b \in 0 .. 15 :
        b \notin {txbd_ready_offset, txbd_last_in_offset, txbd_transmit_crc_offset}
            => read_field(new, b, 1) = read_field(old, b, 1)

C6_TxConsume ==
    [][LET i == tx_token.descriptor
       IN  /\ \A fr \in TxFrames :
                 (TxConsume(fr) /\ fr.len <= tx_token.mtu) =>
                     /\ tx_index = i
                     /\ buffer' = [ptr |-> TxBufferAddr(i, tx_mtu), len |-> fr.len]
           /\ TxUserFn =>
                 /\ pending'.ptr = TxBufferAddr(i, tx_mtu)
                 /\ pending'.len = frame.len
           /\ TxWriteFlags =>
                 /\ ~TxFlagsSet(tx_ring[i].flags)
                 /\ TxFlagsSet(tx_ring'[i].flags)
                 /\ TxOtherFlagsKept(tx_ring[i].flags, tx_ring'[i].flags)
                 /\ tx_ring'[i].data_length = frame.len
                 /\ tx_buffers'[i] = frame.data
           /\ TxReturn =>
                 /\ ret' = [call |-> "tx_consume", value |-> frame.data]
                 /\ tx_ring'[i].data_length = frame.len
                 /\ read_field(tx_ring'[i].flags, txbd_last_in_offset, 1) = 1
                 /\ read_field(tx_ring'[i].flags, txbd_transmit_crc_offset, 1) = 1
                 /\ etheren = 0 => TxFlagsSet(tx_ring'[i].flags)
                 /\ tx_index = i
                 /\ tx_index' = (i + 1) % TxN]_vars

\* A fresh ring of 8 descriptors with MTU 1536, the first token consumed
\* with 64 bytes: data_length 64, the three flags set, the cursor at 1.
C6_Witness ==
    /\ TxN = 8
    /\ tx_mtu = 1536
    /\ tx_count = 1
    /\ ret = [call |-> "tx_consume", value |-> 1]
    /\ tx_ring[0].data_length = 64
    /\ TxFlagsSet(tx_ring[0].flags)
    /\ tx_index = 1

(***************************************************************************)
(* C7.  Consuming a receive token claimed at index i: the user function    *)
(* gets a view of exactly data_length bytes, the length the hardware       *)
(* stored in descriptor i, at the data_buffer_pointer of descriptor i;     *)
(* consume sets empty of descriptor i and changes no other flag, only the  *)
(* DMA engine clears it again, and the cursor is left at (i + 1) mod N.    *)
(***************************************************************************)
RxEmpty(flags) == read_field(flags, rxbd_empty_offset, 1) = 1

RxOtherFlagsKept(old, new) ==
    \A b \in 0 .. 15 :
        b # rxbd_empty_offset => read_field(new, b, 1) = read_field(old, b, 1)

C7_RxConsume ==
    [][LET i == rx_token.descriptor
       IN  /\ (RxConsume /\ pc' = "rx_f") =>
                 /\ rx_index = i
                 /\ buffer'.len = rx_ring[i].data_length
                 /\ buffer'.ptr = rx_ring[i].data_buffer_pointer
                 /\ buffer'.ptr = RxBufferAddr(i, rx_mtu)
           /\ RxUserFn =>
                 /\ result'.value.len = rx_ring[i].data_length
                 /\ result'.value.data = rx_buffers[i]
           /\ RxWriteFlags =>
                 /\ ~RxEmpty(rx_ring[i].flags)
                 /\ RxEmpty(rx_ring'[i].flags)
                 /\ RxOtherFlagsKept(rx_ring[i].flags, rx_ring'[i].flags)
                 /\ rx_ring'[i].data_length = rx_ring[i].data_length
           /\ (pc \in {"rx_doorbell", "rx_index"}
                   /\ RxEmpty(rx_ring[i].flags) /\ ~RxEmpty(rx_ring'[i].flags)) =>
                 /\ rx_dma.phase = "commit"
                 /\ rx_dma.ptr = i
           /\ RxReturn =>
                 /\ ret' = [call |-> "rx_consume", value |-> result.value]
                 /\ etheren = 0 => RxEmpty(rx_ring'[i].flags)
                 /\ rx_index = i
                 /\ rx_index' = (i + 1) % RxN]_vars

\* Descriptor 0 was filled with 42 bytes and consumed: the user function
\* saw 42 bytes, empty reads 1 again and the cursor is at 1.
C7_Witness ==
    /\ RxN > 1
    /\ rx_done = 1
    /\ ret = [call |-> "rx_consume", value |-> [len |-> 42, data |-> 1]]
    /\ ~RxOwnedBySoftware(0)
    /\ rx_index = 1

(***************************************************************************)
(* C8.  A transmit ring of N descriptors takes exactly N frames while the  *)
(* DMA engine hands none back: from a freshly taken ring the claims at     *)
(* indices 0 .. N-1 all succeed, and the claim after them, made before     *)
(* any ready flag was cleared, returns no token.                           *)
(***************************************************************************)
TxReadyCount == Cardinality({i \in DOMAIN tx_ring : ~TxOwnedBySoftware(i)})

\* Every ready flag software has set so far is still set.
NoneReturned ==
    TxReadyCount = tx_count + (IF pc \in {"tx_doorbell", "tx_index"} THEN 1 ELSE 0)

C8_RingCapacity ==
    NoneReturned =>
        /\ tx_count <= TxN
        /\ (pc = "idle" /\ tx_count < TxN) =>
              /\ tx_next_token(tx_ring, tx_index, tx_mtu) # None
              /\ tx_next_token(tx_ring, tx_index, tx_mtu).descriptor = tx_count
        /\ tx_token # None => tx_token.descriptor = tx_count /\ tx_count < TxN
        /\ tx_count = TxN => tx_next_token(tx_ring, tx_index, tx_mtu) = None

\* Eight frames went into a ring of 8 descriptors and the ninth claim
\* returned no token.
C8_Witness ==
    /\ TxN = 8
    /\ tx_count = 8
    /\ NoneReturned
    /\ ret = [call |-> "transmit", some |-> FALSE]

(***************************************************************************)
(* C9.  A claim that fails because the descriptor at the cursor is still   *)
(* owned by hardware is pure backpressure: the call returns at once with   *)
(* no token and changes no descriptor field, no buffer, neither cursor     *)
(* and neither doorbell register; the same claim succeeds as soon as the   *)
(* DMA engine has flipped the ownership bit.                               *)
(***************************************************************************)
C9_Backpressure ==
    /\ [][/\ (Transmit /\ tx_token' = None) =>
              /\ ~TxOwnedBySoftware(tx_index)
              /\ pc' = "idle"
              /\ UNCHANGED <<ring_vars, reg_vars, dma_vars, rx_token>>
          /\ (ReceiveTx /\ tx_token' = None) =>
              /\ ~TxOwnedBySoftware(tx_index)
              /\ pc' = "idle"
              /\ UNCHANGED <<ring_vars, reg_vars, dma_vars, rx_token>>
          /\ (ReceiveRx /\ rx_token' = None) =>
              /\ ~RxOwnedBySoftware(rx_index)
              /\ pc' = "idle"
              /\ UNCHANGED <<ring_vars, reg_vars, dma_vars>>]_vars
    /\ [][/\ (tx_index' = tx_index
                 /\ ~TxOwnedBySoftware(tx_index) /\ TxOwnedBySoftware(tx_index)') =>
              /\ tx_dma.busy /\ tx_dma.ptr = tx_index
              /\ tx_next_token(tx_ring, tx_index, tx_mtu) = None
              /\ tx_next_token(tx_ring, tx_index, tx_mtu)' # None
          /\ (rx_index' = rx_index
                 /\ ~RxOwnedBySoftware(rx_index) /\ RxOwnedBySoftware(rx_index)') =>
              /\ rx_dma.phase = "commit" /\ rx_dma.ptr = rx_index
              /\ rx_next_token(rx_ring, rx_index, rx_mtu) = None
              /\ rx_next_token(rx_ring, rx_index, rx_mtu)' # None]_vars

\* The transmit ring is full, a claim has just failed, and the engine is
\* still reading the buffer of the descriptor at the cursor.
C9_Witness ==
    /\ ret = [call |-> "transmit", some |-> FALSE]
    /\ tx_token = None
    /\ ~TxOwnedBySoftware(tx_index)
    /\ tx_dma.busy
    /\ tx_dma.ptr = tx_index
    /\ tdar = 1

(***************************************************************************)
(* C10.  A token that was claimed and is dropped without consume leaves    *)
(* the ring as it was before the claim: neither the claim nor the drop     *)
(* changes a descriptor field, a buffer, a cursor or a doorbell register,  *)
(* and the next claim on that ring returns a token for the same            *)
(* descriptor index.                                                       *)
(***************************************************************************)
C10_DropRestores ==
    [][/\ (Transmit \/ ReceiveTx \/ ReceiveRx) => UNCHANGED <<ring_vars, reg_vars>>
       /\ DropTxToken =>
             /\ UNCHANGED <<ring_vars, reg_vars>>
             /\ tx_next_token(tx_ring, tx_index, tx_mtu)' = tx_token
       /\ DropRxToken =>
             /\ UNCHANGED <<ring_vars, reg_vars>>
             /\ rx_next_token(rx_ring, rx_index, rx_mtu)' = rx_token
       /\ (ReceiveRx /\ rx_token' = None) =>
             /\ tx_token' = None
             /\ tx_next_token(tx_ring, tx_index, tx_mtu)' = tx_token]_vars

\* A token for descriptor 1 was dropped, and the ring still offers
\* descriptor 1.
C10_Witness ==
    /\ ret = [call |-> "drop_tx", some |-> FALSE]
    /\ tx_index = 1
    /\ tx_token = None
    /\ tx_next_token(tx_ring, tx_index, tx_mtu) # None
    /\ tx_next_token(tx_ring, tx_index, tx_mtu).descriptor = 1

(***************************************************************************)
(* C11.  consume never exposes more than MTU bytes of a buffer.  A         *)
(* transmit token consumed with a declared length above the MTU of the     *)
(* ring, or a receive token whose descriptor holds a data_length above     *)
(* the MTU, stops at the assertion before the user function is called:     *)
(* data_length and flags of every descriptor, both cursors and both        *)
(* doorbell registers are as they were, and software does nothing more.    *)
(***************************************************************************)
\* The slice of the user function is alive or about to be made.
SliceAlive == buffer # None

C11_Untouched == UNCHANGED <<ring_vars, reg_vars, pending, result, buffer>>

C11_MtuAssertion ==
    /\ [](SliceAlive =>
            buffer.len <= (IF pc \in {"rx_f", "rx_flags_read", "rx_flags_write",
                                      "rx_doorbell", "rx_index"}
                           THEN rx_mtu ELSE tx_mtu))
    /\ [](pc = "panic" => ~SliceAlive /\ pending = None /\ result = None)
    /\ [][/\ \A fr \in TxFrames :
                (TxConsume(fr) /\ fr.len > tx_token.mtu) =>
                    pc' = "panic" /\ C11_Untouched
          /\ (RxConsume /\ rx_ring[rx_token.descriptor].data_length > rx_token.mtu) =>
                pc' = "panic" /\ C11_Untouched
          /\ pc = "panic" =>
                /\ pc' = "panic"
                /\ UNCHANGED <<tx_index, rx_index, tx_buffers, call_vars>>
                /\ tdar' <= tdar
                /\ rdar' <= rdar
                /\ \A i \in DOMAIN tx_ring :
                      /\ tx_ring'[i].data_length = tx_ring[i].data_length
                      /\ TxOwnedBySoftware(i) => tx_ring'[i] = tx_ring[i]]_vars

\* The first frame went out, no frame was ever received, and the token for
\* descriptor 1 was consumed with more than MTU bytes.
C11_Witness ==
    /\ pc = "panic"
    /\ rx_count = 0
    /\ tx_count = 1
    /\ tx_index = 1
    /\ TxOwnedBySoftware(1)
    /\ tx_ring[1].data_length = 0

(***************************************************************************)
(* C12.  Every consume writes a doorbell register exactly once: TDAR for   *)
(* a transmit token, RDAR for a receive token, and the write comes after   *)
(* the flag update that hands the descriptor to hardware.  A failed claim  *)
(* and a dropped token write no doorbell.                                  *)
(***************************************************************************)
\* The statements of the two consumes in the order they run: every label
\* is passed once between the call and the return.
ConsumeOrder ==
    {<<"idle", "tx_f">>, <<"tx_f", "tx_fence">>, <<"tx_fence", "tx_len">>,
     <<"tx_len", "tx_flags_read">>, <<"tx_flags_read", "tx_flags_write">>,
     <<"tx_flags_write", "tx_doorbell">>, <<"tx_doorbell", "tx_index">>,
     <<"tx_index", "idle">>,
     <<"idle", "rx_f">>, <<"rx_f", "rx_flags_read">>,
     <<"rx_flags_read", "rx_flags_write">>, <<"rx_flags_write", "rx_doorbell">>,
     <<"rx_doorbell", "rx_index">>, <<"rx_index", "idle">>,
     <<"idle", "panic">>, <<"idle", "receive">>, <<"receive", "idle">>}

C12_OneDoorbell ==
    /\ [][pc' # pc => <<pc, pc'>> \in ConsumeOrder]_vars
    /\ [][/\ (pc = "tx_doorbell" /\ pc' # pc) =>
                tdar' = 1 /\ rdar' = rdar /\ pc' = "tx_index"
          /\ (pc = "rx_doorbell" /\ pc' # pc) =>
                rdar' = 1 /\ tdar' = tdar /\ pc' = "rx_index"
          /\ (tdar = 0 /\ tdar' = 1) => pc = "tx_doorbell" /\ pc' = "tx_index"
          /\ (rdar = 0 /\ rdar' = 1) =>
                \/ pc = "rx_doorbell" /\ pc' = "rx_index"
                \/ EnableMac(TRUE)
          /\ (pc = "tx_flags_write" /\ pc' = "tx_doorbell") =>
                /\ TxOwnedBySoftware(tx_token.descriptor)
                /\ ~TxOwnedBySoftware(tx_token.descriptor)'
                /\ UNCHANGED <<tdar, rdar>>
          /\ (pc = "rx_flags_write" /\ pc' = "rx_doorbell") =>
                /\ RxOwnedBySoftware(rx_token.descriptor)
                /\ ~RxOwnedBySoftware(rx_token.descriptor)'
                /\ UNCHANGED <<tdar, rdar>>
          /\ (Transmit \/ ReceiveTx \/ ReceiveRx \/ DropTxToken \/ DropRxToken) =>
                UNCHANGED <<tdar, rdar>>]_vars

\* A receive token has rung RDAR, after the engine had stopped scanning,
\* and TDAR was never written.
C12_Witness ==
    /\ pc = "rx_index"
    /\ rdar = 1
    /\ tdar = 0
    /\ tx_count = 0
    /\ rx_dma.ptr = rx_token.descriptor
    /\ ~RxOwnedBySoftware(rx_token.descriptor)

(***************************************************************************)
(* C13.  Right after take() on a buffer set of N descriptors: descriptor   *)
(* i points at data buffer i, the cursor is at 0, every field other than   *)
(* the pointer and the flags is zero, and of the flags only wrap on the    *)
(* last descriptor and the ownership bits are set: empty = 1 on every      *)
(* receive descriptor, ready = 0 on every transmit descriptor.  So the     *)
(* first claim on a fresh transmit ring succeeds and the first claim on a  *)
(* fresh receive ring returns no token.                                    *)
(***************************************************************************)
C13_FreshTx(ring, mtu) ==
    \A i \in DOMAIN ring :
        /\ ring[i].data_buffer_pointer = TxBufferAddr(i, mtu)
        /\ [ring[i] EXCEPT !.data_buffer_pointer = 0, !.flags = 0] = ZeroTxBD
        /\ read_field(ring[i].flags, txbd_ready_offset, 1) = 0
        /\ ring[i].flags = (IF i = RingLen(ring) - 1 THEN 2 ^ txbd_wrap_offset ELSE 0)

C13_FreshRx(ring, mtu) ==
    \A i \in DOMAIN ring :
        /\ ring[i].data_buffer_pointer = RxBufferAddr(i, mtu)
        /\ [ring[i] EXCEPT !.data_buffer_pointer = 0, !.flags = 0] = ZeroRxBD
        /\ read_field(ring[i].flags, rxbd_empty_offset, 1) = 1
        /\ ring[i].flags = 2 ^ rxbd_empty_offset
                + (IF i = RingLen(ring) - 1 THEN 2 ^ rxbd_wrap_offset ELSE 0)

C13_AfterTake ==
    [][/\ TakeTx =>
            /\ DOMAIN tx_ring' = DOMAIN tx_buffers
            /\ C13_FreshTx(tx_ring', statics.tx.mtu)
            /\ tx_index' = 0
            /\ tx_mtu' = statics.tx.mtu
            /\ tx_next_token(tx_ring, tx_index, tx_mtu)' # None
       /\ TakeRx =>
            /\ DOMAIN rx_ring' = DOMAIN rx_buffers
            /\ C13_FreshRx(rx_ring', statics.rx.mtu)
            /\ rx_index' = 0
            /\ rx_mtu' = statics.rx.mtu
            /\ rx_next_token(rx_ring, rx_index, rx_mtu)' = None
       /\ (InService /\ Transmit /\ tx_count = 0) => tx_token' # None /\ tx_token'.descriptor = 0
       /\ (InService /\ ReceiveTx /\ tx_count = 0) => tx_token' # None /\ pc' = "receive"
       /\ (InService /\ ReceiveRx /\ rx_count = 0) => rx_token' = None]_vars

\* Two rings of the longest size were taken from memory that held all
\* ones, and the first receive on them returned nothing.
C13_Witness ==
    /\ InService
    /\ TxN = MaxCount
    /\ RxN = MaxCount
    /\ tx_count = 0
    /\ tx_index = 0
    /\ C13_FreshTx(tx_ring, tx_mtu)
    /\ C13_FreshRx(rx_ring, rx_mtu)
    /\ ret = [call |-> "receive", some |-> FALSE]

(***************************************************************************)
(* C14.  In every state reached after take() by claims, consumes, drops    *)
(* and DMA completions, exactly the last descriptor of each ring has its   *)
(* wrap bit set: consume on the last descriptor does not clear the bit     *)
(* and consume on another descriptor does not set it.                      *)
(***************************************************************************)
TxWrap(i) == read_field(tx_ring[i].flags, txbd_wrap_offset, 1)
RxWrap(i) == read_field(rx_ring[i].flags, rxbd_wrap_offset, 1)

C14_WrapOnLast ==
    /\ \A i \in DOMAIN tx_ring : TxWrap(i) = (IF i = TxN - 1 THEN 1 ELSE 0)
    /\ \A i \in DOMAIN rx_ring : RxWrap(i) = (IF i = RxN - 1 THEN 1 ELSE 0)
    /\ Cardinality({i \in DOMAIN tx_ring : TxWrap(i) = 1}) = 1
    /\ Cardinality({i \in DOMAIN rx_ring : RxWrap(i) = 1}) = 1

\* A receive token for the last descriptor of a longer ring was consumed,
\* and the last transmit descriptor is with the engine.
C14_Witness ==
    /\ RxN > 1
    /\ TxN > 1
    /\ rx_done = RxN
    /\ ~RxOwnedBySoftware(RxN - 1)
    /\ ~TxOwnedBySoftware(TxN - 1)

(***************************************************************************)
(* C15.  Device::receive yields a receive token only together with a       *)
(* transmit token: it returns the pair exactly when the transmit           *)
(* descriptor at the transmit cursor reads ready = 0 and the receive       *)
(* descriptor at the receive cursor reads empty = 0, and nothing           *)
(* otherwise, also when a frame is waiting while the transmit ring is      *)
(* full.  The call changes no descriptor, no cursor and no doorbell.       *)
(***************************************************************************)
C15_ReceivePair ==
    [][/\ ReceiveTx =>
            /\ UNCHANGED <<ring_vars, reg_vars, rx_token>>
            /\ IF TxOwnedBySoftware(tx_index)
               THEN /\ pc' = "receive"
                    /\ tx_token' # None
                    /\ tx_token'.descriptor = tx_index
                    /\ UNCHANGED ret
               ELSE /\ pc' = "idle"
                    /\ tx_token' = None
                    /\ ret' = [call |-> "receive", some |-> FALSE]
       /\ ReceiveRx =>
            /\ UNCHANGED <<ring_vars, reg_vars>>
            /\ pc' = "idle"
            /\ tx_token # None
            /\ TxOwnedBySoftware(tx_index)
            /\ IF RxOwnedBySoftware(rx_index)
               THEN /\ ret' = [call |-> "receive", some |-> TRUE]
                    /\ rx_token' # None
                    /\ rx_token'.descriptor = rx_index
                    /\ tx_token' = tx_token
                    /\ tx_token'.descriptor = tx_index
               ELSE /\ ret' = [call |-> "receive", some |-> FALSE]
                    /\ rx_token' = None
                    /\ tx_token' = None]_vars

\* A frame is waiting in the receive ring, the transmit ring is full, and
\* receive has returned nothing.
C15_Witness ==
    /\ ret = [call |-> "receive", some |-> FALSE]
    /\ tx_token = None
    /\ rx_token = None
    /\ pc = "idle"
    /\ RxOwnedBySoftware(rx_index)
    /\ ~TxOwnedBySoftware(tx_index)
    /\ rx_done = 0

(***************************************************************************)
(* C16.  A buffer set becomes a ring cursor at most once: take() needs     *)
(* the &'static mut of the static, which moves into the call, so no run    *)
(* makes a second cursor over a ring and no run zeroes the descriptors     *)
(* and resets the index of a ring that is in use.                          *)
(***************************************************************************)
TxRingFresh == tx_index = 0 /\ tx_ring = TxTake(TxN, statics.tx.mtu)
RxRingFresh == rx_index = 0 /\ rx_ring = RxTake(RxN, statics.rx.mtu)

C16_TakeOnce ==
    /\ [](statics.tx.cursors <= 1 /\ statics.rx.cursors <= 1)
    /\ [](statics.tx.cursors = 1 <=> statics.tx.state = "borrowed")
    /\ [](statics.rx.cursors = 1 <=> statics.rx.state = "borrowed")
    /\ [][/\ statics.tx.state = "borrowed" =>
               /\ statics'.tx = statics.tx
               /\ ~TxRingFresh => ~TxRingFresh'
          /\ statics.rx.state = "borrowed" =>
               /\ statics'.rx = statics.rx
               /\ ~RxRingFresh => ~RxRingFresh'
          /\ TakeTx => statics.tx.cursors = 0
          /\ TakeRx => statics.rx.cursors = 0]_vars

\* Every descriptor of the longest transmit ring went out and the cursor
\* is back at 0: still one cursor for each ring.
C16_Witness ==
    /\ InService
    /\ TxN = MaxCount
    /\ tx_count = TxN
    /\ tx_index = 0
    /\ ~TxRingFresh
    /\ statics.tx.cursors = 1
    /\ statics.rx.cursors = 1

(***************************************************************************)
(* C17.  IoBuffers::new fails for every MTU that is not divisible by 16    *)
(* (100 and 1500 among them) and succeeds for every MTU that is divisible  *)
(* by 16 (1536 and 2048 among them).                                       *)
(***************************************************************************)
DivisibleBy16(m) == \E k \in 0 .. m : m = 16 * k

C17_Built(static) ==
    /\ static.state = "rejected" => ~DivisibleBy16(static.mtu)
    /\ static.state \in {"built", "borrowed"} => DivisibleBy16(static.mtu)

C17_MtuMultipleOf16 ==
    /\ [](C17_Built(statics.tx) /\ C17_Built(statics.rx))
    /\ [][\A n \in Counts, mtu \in SetupMtus :
            /\ NewTx(n, mtu) =>
                  /\ statics'.tx.mtu = mtu
                  /\ statics'.tx.state =
                        (IF DivisibleBy16(mtu) THEN "built" ELSE "rejected")
            /\ NewRx(n, mtu) =>
                  /\ statics'.rx.mtu = mtu
                  /\ statics'.rx.state =
                        (IF DivisibleBy16(mtu) THEN "built" ELSE "rejected")]_vars

\* A transmit buffer set with MTU 1500 was rejected and a receive buffer
\* set with MTU 2048 was built.
C17_Witness ==
    /\ statics.tx = [state |-> "rejected", mtu |-> 1500, cursors |-> 0]
    /\ statics.rx = [state |-> "built", mtu |-> 2048, cursors |-> 0]

(***************************************************************************)
(* C18.  The capabilities of the device report max_transmission_unit and   *)
(* max_burst_size equal to the smaller of the two rings' buffer sizes,     *)
(* medium Ethernet and checksum handling None for IPv4, UDP, TCP and       *)
(* ICMPv4, and no claim or consume changes what is reported.               *)
(***************************************************************************)
Smaller(a, b) == CHOOSE m \in {a, b} : m <= a /\ m <= b

C18_Report(caps, a, b) ==
    /\ caps.medium = "Ethernet"
    /\ caps.max_transmission_unit = Smaller(a, b)
    /\ caps.max_burst_size = Smaller(a, b)
    /\ \A proto \in {"ipv4", "udp", "tcp", "icmpv4"} :
          caps.checksum[proto] = "None"

C18_Capabilities ==
    /\ [](\A a, b \in SetupMtus : C18_Report(capabilities(a, b), a, b))
    /\ [](C18_Report(capabilities(tx_mtu, rx_mtu), tx_mtu, rx_mtu))
    /\ [][capabilities(tx_mtu', rx_mtu') = capabilities(tx_mtu, rx_mtu)]_vars

\* Frames went through both rings, a transmit token is live, and the
\* device reports the transmit ring's buffer size, the smaller of the two.
C18_Witness ==
    /\ tx_count > 0
    /\ rx_done > 0
    /\ tx_token # None
    /\ tx_mtu < rx_mtu
    /\ capabilities(tx_mtu, rx_mtu).max_transmission_unit = tx_mtu

(***************************************************************************)
(* C19.  enable_rmii_mode, enable_10t_mode and set_duplex each panic when  *)
(* called while the MAC is enabled (ECR.ETHEREN = 1), so the RMII mode,    *)
(* the 10 Mbit/s throttle and the duplex setting only ever change while    *)
(* the MAC is disabled.                                                    *)
(***************************************************************************)
ConfigCall ==
    \/ \E enable \in BOOLEAN : EnableRmiiMode(enable)
    \/ \E enable \in BOOLEAN : Enable10tMode(enable)
    \/ \E duplex \in Duplexes : SetDuplex(duplex)

C19_PanicWhenEnabled ==
    [][/\ (is_mac_enabled /\ ConfigCall) => pc' = "panic"
       /\ (rcr' # rcr \/ tcr' # tcr) => ~is_mac_enabled]_vars

\* What the code does guarantee: the claim holds in a build with
\* debug_assertions, and in every build a call made while the MAC is
\* disabled writes its setting and returns.
C19_DebugBuild ==
    [][/\ (debug_assertions /\ is_mac_enabled /\ ConfigCall) => pc' = "panic"
       /\ (debug_assertions /\ (rcr' # rcr \/ tcr' # tcr)) => ~is_mac_enabled
       /\ (~is_mac_enabled /\ ConfigCall) => pc' = "idle"]_vars

\* The debug build: a configuration method was called while the MAC was
\* enabled and panicked.
C19_Witness ==
    /\ debug_assertions
    /\ is_mac_enabled
    /\ pc = "panic"

(***************************************************************************)
(* C20.  Modifying one named bit field of a descriptor register changes    *)
(* exactly the bits of the field's mask to those of (value << offset) and  *)
(* leaves every other bit of the register unchanged.  On the transmit      *)
(* control register: ftype := AVB_B on zero gives 0x2 << 4, then           *)
(* interrupt := 1 gives (0x2 << 4) | (1 << 14), then ftype := 0 gives      *)
(* 1 << 14.                                                                *)
(***************************************************************************)
Bit(reg, b) == (reg \div (2 ^ b)) % 2

InField(field, b) == field.offset <= b /\ b < field.offset + field.bits

Ftype == [name |-> "ftype", offset |-> 4, bits |-> 4]
Interrupt == [name |-> "interrupt", offset |-> 14, bits |-> 1]

C20_ModifyField ==
    [][/\ \A field \in ControlFields : \A value \in FieldValues(field) :
            ModifyControl(field, value) =>
                \A b \in 0 .. 15 :
                    Bit(tx_ring'[0].control, b) =
                        IF InField(field, b)
                        THEN Bit(value * (2 ^ field.offset), b)
                        ELSE Bit(tx_ring[0].control, b)
       /\ (tx_ring[0].control = 0 /\ ModifyControl(Ftype, 2)) =>
              tx_ring'[0].control = 32
       /\ (tx_ring[0].control = 32 /\ ModifyControl(Interrupt, 1)) =>
              tx_ring'[0].control = 16416
       /\ (tx_ring[0].control = 16416 /\ ModifyControl(Ftype, 0)) =>
              tx_ring'[0].control = 16384]_vars

\* ftype reads AVB_B and interrupt is set in a register that read zero:
\* (0x2 << 4) | (1 << 14).
C20_Witness ==
    /\ tx_ring[0].control = 16416
    /\ read_field(tx_ring[0].control, txbd_ftype_offset, txbd_ftype_bits) = AVB_B
    /\ read_field(tx_ring[0].control, txbd_interrupt_offset, 1) = 1

(***************************************************************************)
(* C22.  On every ring of N >= 1 descriptors the cursor index lies in      *)
(* [0, N) in every reachable state, so the descriptor lookup of next_token *)
(* never fails.  Only a consume that returns changes the index, to         *)
(* (index + 1) mod N: next_token, a failed claim and a dropped token leave *)
(* it alone.                                                               *)
(***************************************************************************)
C22_CursorInRange ==
    /\ [](TxN >= 1 /\ tx_index \in 0 .. (TxN - 1))
    /\ [](RxN >= 1 /\ rx_index \in 0 .. (RxN - 1))
    /\ [][/\ tx_index' # tx_index => TxReturn
          /\ rx_index' # rx_index => RxReturn
          /\ TxReturn => tx_index' = (tx_index + 1) % TxN
          /\ RxReturn => rx_index' = (rx_index + 1) % RxN
          /\ (\/ Transmit \/ ReceiveTx \/ ReceiveRx
              \/ DropTxToken \/ DropRxToken) =>
                UNCHANGED <<tx_index, rx_index>>]_vars

\* The transmit cursor wrapped to 0 on a ring of two descriptors, the
\* receive cursor on a ring of one, and the last call was a transmit that
\* found the ring full and made no token.
C22_Witness ==
    /\ TxN = 2 /\ tx_count = 2 /\ tx_index = 0
    /\ RxN = 1 /\ rx_done = 1 /\ rx_index = 0
    /\ ret = [call |-> "transmit", some |-> FALSE]

(***************************************************************************)
(* C23.  With an engine that services each ring in index order from 0,     *)
(* the software cursor never overtakes the engine: the transmit            *)
(* descriptors with ready = 1 form one contiguous cyclic run, of at most N *)
(* descriptors, that starts at the engine's descriptor and ends just       *)
(* before the software cursor, and the receive descriptors with empty = 0  *)
(* form one contiguous cyclic run that starts at the software cursor and   *)
(* ends just before the engine's descriptor.  Inside consume, between the  *)
(* write of the flags and the assignment of the index, the cursor is the   *)
(* index consume is about to assign.                                       *)
(***************************************************************************)
TxCursor == IF pc \in {"tx_doorbell", "tx_index"} THEN tx_token.next ELSE tx_index
RxCursor == IF pc \in {"rx_doorbell", "rx_index"} THEN rx_token.next ELSE rx_index

\* The k descriptors of a ring of n that start at descriptor start.
CyclicRun(start, k, n) == {(start + j) % n : j \in 0 .. (k - 1)}

TxReadySet == {i \in DOMAIN tx_ring : ~TxOwnedBySoftware(i)}
RxFullSet == {i \in DOMAIN rx_ring : RxOwnedBySoftware(i)}

C23_TxRun ==
    LET k == Cardinality(TxReadySet)
    IN  /\ k <= TxN
        /\ TxReadySet = CyclicRun((TxCursor + TxN - k) % TxN, k, TxN)
        /\ (tx_dma.ptr + k) % TxN = TxCursor

C23_RxRun ==
    LET k == Cardinality(RxFullSet)
    IN  /\ k <= RxN
        /\ RxFullSet = CyclicRun(RxCursor, k, RxN)
        /\ (RxCursor + k) % RxN = rx_dma.ptr

C23_NoOvertake == C23_TxRun /\ C23_RxRun

\* On rings of two descriptors: one transmit descriptor is ready, the one
\* just before the cursor after the cursor wrapped, and one receive
\* descriptor is full, the one at the cursor, with the engine at the next.
C23_Witness ==
    /\ pc = "idle"
    /\ TxN = 2 /\ tx_index = 0 /\ TxReadySet = {1}
    /\ RxN = 2 /\ rx_index = 0 /\ RxFullSet = {0} /\ rx_dma.ptr = 1

(***************************************************************************)
(* C26.  The compile-time assertion of the IoBuffers types guarantees that *)
(* the receive buffer size Enet::new sees is a non-zero multiple of 16:    *)
(* the check rx_ring.mtu() != 0 && rx_ring.mtu() & 0xF == 0 holds for      *)
(* every receive ring obtained from a buffer set, and the value written to *)
(* MRBR.R_BUF_SIZE (mtu >> 4) is never 0.                                  *)
(***************************************************************************)
C26_NonZeroMultipleOf16 ==
    /\ statics.rx.state = "borrowed" =>
          /\ rx_mtu # 0
          /\ \E k \in 1 .. rx_mtu : rx_mtu = 16 * k
    /\ enet_built => mrbr # 0

\* What the assertion does guarantee: the size is a multiple of 16 and
\* MRBR holds it exactly; only a build with debug_assertions keeps a size
\* of zero out of MRBR, by a panic in Enet::new.
C26_MultipleOf16 ==
    /\ statics.rx.state = "borrowed" => DivisibleBy16(rx_mtu)
    /\ enet_built => mrbr * 16 = rx_mtu
    /\ (enet_built /\ debug_assertions) => mrbr # 0

\* A release build whose Enet::new returned on a receive ring taken from
\* ReceiveBuffers<_, 0> and wrote 0 to MRBR.R_BUF_SIZE.
C26_Witness ==
    /\ ~debug_assertions
    /\ enet_built
    /\ statics.rx = [state |-> "borrowed", mtu |-> 0, cursors |-> 1]
    /\ rx_mtu = 0
    /\ mrbr = 0

(***************************************************************************)
(* C21.  The descriptor fields sit at the hardware-fixed byte offsets,     *)
(* with no reordering and no padding.  Receive descriptor: data_length     *)
(* 0x0, flags 0x2, data_buffer_pointer 0x4, status 0x8, control 0xA,       *)
(* checksum 0xC, header 0xE, last_bdu 0x12, timestamp_1588 0x14.           *)
(* Transmit descriptor: data_length 0x0, flags 0x2, data_buffer_pointer    *)
(* 0x4, errors 0x8, control 0xA, launch_time 0xC, last_bdu 0x12,           *)
(* timestamp_1588 0x14.  So what software writes through a field is what   *)
(* the engine finds at the field's offset, and the reverse, and no write   *)
(* touches another field.                                                  *)
(***************************************************************************)
C21_RxOffsets ==
    <<<<"data_length", 0>>, <<"flags", 2>>, <<"data_buffer_pointer", 4>>,
      <<"status", 8>>, <<"control", 10>>, <<"checksum", 12>>, <<"header", 14>>,
      <<"last_bdu", 18>>, <<"timestamp_1588", 20>>>>

C21_TxOffsets ==
    <<<<"data_length", 0>>, <<"flags", 2>>, <<"data_buffer_pointer", 4>>,
      <<"errors", 8>>, <<"control", 10>>, <<"launch_time", 12>>,
      <<"last_bdu", 18>>, <<"timestamp_1588", 20>>>>

\* Every field is at its offset, in this order, and the fields and the
\* reserved words fill the descriptor without a gap.
C21_Layout(fields, offsets) ==
    /\ \A i \in DOMAIN offsets : offset_of(fields, offsets[i][1]) = offsets[i][2]
    /\ \A k \in 2 .. Len(fields) :
          field_offset(fields, k) = field_offset(fields, k - 1) + fields[k - 1].size
    /\ size_of(fields) = 32

\* The value of a field as the struct reads it and as the engine reads it.
SoftwareReads(mem, name) ==
    LET fields == BD(mem.kind)
    IN  load(mem.bytes, offset_of(fields, name), fields[FieldIndex(fields, name)].size)

EngineReads(mem, name) ==
    LET fields == BD(mem.kind)
    IN  load(mem.bytes, HwOffsets(mem.kind)[name], fields[FieldIndex(fields, name)].size)

C21_FieldOffsets ==
    /\ [](C21_Layout(TxBD, C21_TxOffsets) /\ C21_Layout(RxBD, C21_RxOffsets))
    /\ [](\A name \in DOMAIN HwOffsets(bd_mem.kind) :
            SoftwareReads(bd_mem, name) = EngineReads(bd_mem, name))
    /\ [][\A name \in DOMAIN HwOffsets(bd_mem.kind) :
          \A value \in FieldPatterns(2) \cup FieldPatterns(4) :
            (WriteField(name, value) \/ DmaWriteField(name, value)) =>
                /\ SoftwareReads(bd_mem', name) = value
                /\ EngineReads(bd_mem', name) = value
                /\ \A other \in DOMAIN HwOffsets(bd_mem.kind) \ {name} :
                      /\ SoftwareReads(bd_mem', other) = SoftwareReads(bd_mem, other)
                      /\ EngineReads(bd_mem', other) = EngineReads(bd_mem, other)]_vars

\* A receive descriptor in which the engine stored data_length and
\* timestamp_1588 and software wrote last_bdu, the field after the
\* reserved half-word.
C21_Witness ==
    /\ bd_mem.kind = "rx"
    /\ SoftwareReads(bd_mem, "data_length") = 42330
    /\ SoftwareReads(bd_mem, "timestamp_1588") = 305419896
    /\ EngineReads(bd_mem, "last_bdu") = 42330
    /\ bd_mem.bytes[18] = 90 /\ bd_mem.bytes[19] = 165

(***************************************************************************)
(* C24.  No wakeup is lost on transmit.  With an engine that goes idle     *)
(* when the descriptor it points at is not ready, rescans only after a     *)
(* write of TDAR and is scheduled fairly: every descriptor consume marks   *)
(* ready is eventually transmitted and returned to software; the engine    *)
(* does not stay idle forever while a ready descriptor is pending; and a   *)
(* full ring does not stay full, so a caller that keeps polling transmit   *)
(* gets a token: the descriptor at the cursor becomes software-owned,      *)
(* stays so until a token is made, and transmit then makes one.            *)
(***************************************************************************)
TxRingFull == TxReadySet = DOMAIN tx_ring

C24_NoLostWakeup ==
    /\ \A i \in 0 .. (MaxCount - 1) :
          (i \in DOMAIN tx_ring /\ etheren = 1 /\ i \in TxReadySet)
              ~> (i \notin TxReadySet)
    /\ (etheren = 1 /\ tdar = 0 /\ TxReadySet # {})
          ~> (tdar = 1 \/ TxReadySet = {})
    /\ (etheren = 1 /\ TxRingFull) ~> TxOwnedBySoftware(tx_index)
    /\ [][/\ (TxOwnedBySoftware(tx_index) /\ tx_token = None) =>
                TxOwnedBySoftware(tx_index)'
          /\ (TxOwnedBySoftware(tx_index) /\ Transmit) => tx_token' # None]_vars

\* The engine went idle on a descriptor that was not ready; consume has
\* since marked that descriptor ready and has not written TDAR yet.
C24_Witness ==
    /\ etheren = 1
    /\ tdar = 0
    /\ ~tx_dma.busy
    /\ pc = "tx_doorbell"
    /\ tx_dma.ptr \in TxReadySet
    /\ tx_count > 0

(***************************************************************************)
(* C25.  Each ring is a bounded FIFO queue of capacity N between software  *)
(* and the engine.  The frames the engine transmits are the frames         *)
(* software committed with consume, in the same order; the frames software *)
(* reads through receive tokens are the frames the engine stored, in the   *)
(* same order; no frame is lost, duplicated, reordered, or overwritten     *)
(* before it is read.  The queue of a ring is what its handed-over         *)
(* descriptors hold, from the reader's position on.                        *)
(***************************************************************************)
TxFrameAt(i) == [len |-> tx_ring[i].data_length, data |-> tx_buffers[i]]
RxFrameAt(i) == [len |-> rx_ring[i].data_length, data |-> rx_buffers[i]]

\* Frames committed by consume, frames stored whole by the engine, and
\* frames whose descriptor software has given back.
TxCommitted == tx_count + (IF pc \in {"tx_doorbell", "tx_index"} THEN 1 ELSE 0)
RxStored == rx_count - (IF rx_dma.phase = "scan" THEN 0 ELSE 1)
RxReleased == rx_done + (IF pc \in {"rx_doorbell", "rx_index"} THEN 1 ELSE 0)

C25_TxQueue ==
    LET k == Cardinality(TxReadySet)
    IN  /\ k <= TxN
        /\ tx_sent + k = TxCommitted
        /\ \A j \in 0 .. (k - 1) :
              TxFrameAt((tx_dma.ptr + j) % TxN) = NthTxFrame(tx_sent + 1 + j)

C25_RxQueue ==
    LET k == Cardinality(RxFullSet)
    IN  /\ k <= RxN
        /\ RxReleased + k = RxStored
        /\ \A j \in 0 .. (k - 1) :
              RxFrameAt((RxCursor + j) % RxN) = NthRxFrame(RxReleased + 1 + j)

C25_BoundedFifo ==
    /\ [](C25_TxQueue /\ C25_RxQueue)
    /\ [][/\ TxDmaDone => TxFrameAt(tx_dma.ptr) = NthTxFrame(tx_sent + 1)
          /\ RxUserFn => result'.value = NthRxFrame(rx_done + 1)]_vars

\* Rings of one descriptor, each used again: the engine has transmitted
\* frames 1 and 2 from the same buffer, and software has read frame 1
\* from the receive ring.
C25_Witness ==
    /\ TxN = 1 /\ RxN = 1
    /\ tx_sent = 2
    /\ rx_done = 1
    /\ ret = [call |-> "rx_consume", value |-> NthRxFrame(1)]

=============================================================================
